---- MODULE Spec2Model ----
(***************************************************************************)
(* Model of the host/DSP boundary core of supersonic:                      *)
(*   - the shared-memory ring writer (audio_processor.cpp ring_buffer_write)*)
(*   - the bundle scheduler (scheduler/BundleScheduler.h)                  *)
(*   - the render entrypoint process_audio (audio_processor.cpp)           *)
(*                                                                         *)
(* Scaling.  A ring is an array of cells.  A Message header occupies       *)
(* HEADER_SIZE = 4 cells, one per 32-bit field (magic, length, sequence,   *)
(* _padding); a payload occupies one cell per payload unit.  Ring          *)
(* capacities, the sequence width and the magic numbers are scaled down so *)
(* that TLC can enumerate the states; all arithmetic is the code's.        *)
(***************************************************************************)
EXTENDS Integers, Sequences, FiniteSets, TLC

VARIABLES
    control,              \* ControlPointers (shared_memory.h:86)
    metrics,              \* PerformanceMetrics (shared_memory.h:113)
    ring_buffer_storage,  \* the three rings' bytes (audio_processor.cpp:94)
    g_scheduler,          \* BundleScheduler g_scheduler (audio_processor.cpp:122)
    pending,              \* slots returned by Remove and not yet released
    born,                 \* history: the order in which slots were added
    render,               \* process_audio's position and locals
    statics,              \* file-scope and function-static render state
    hist,                 \* history: inbound frames written and scheduled
    written,              \* history: per ring, frames published and not yet read
    observed,             \* history: per ring, sequence of the last frame read
    last,                 \* history: what the last operation was and returned
    tree,                 \* NodeTreeHeader, NodeEntry[] and node_tree.cpp's statics
    engine,               \* the engine's nodes and the callback in progress
    reader,               \* an observer of the node tree mirror
    capture,              \* AudioCaptureHeader (shared_memory.h:210)
    uuid                  \* uuid_rewriter.cpp's tables, count and counter

vars == <<control, metrics, ring_buffer_storage, g_scheduler, pending, born,
          render, statics, hist, written, observed, last, tree, engine,
          reader, capture, uuid>>

(***************************************************************************)
(* Constants of the program (scaled) and bounds of the model.              *)
(***************************************************************************)
NODE_TREE_MIRROR_MAX_NODES == 3
AUDIO_CAPTURE_FRAMES == 4
QUANTUM_SIZE == 2
MaxNodeId == 3
MaxTreeOps == 4
HEADER_SIZE == 4
MESSAGE_MAGIC == 239
PADDING_MAGIC == 254
IN_BUFFER_SIZE == 19
OUT_BUFFER_SIZE == 9
DEBUG_BUFFER_SIZE == 7
SeqBits == 3
MaxWrites == 3
PayloadByteMax == 0
MAX_SCHEDULED_BUNDLES == 2
SLOT_DATA_SIZE == 3
TimeBits == 4
MaxAdds == 4
MaxSchedTime == 1
BUNDLE_MARKER == 35
BUNDLE_HEADER_SIZE == 2
MAX_MESSAGES_PER_FRAME == 2
SCHEDULER_SLOT_SIZE == 2
LOG_LIMIT == 1
GAP_LIMIT == 3
LATE_LOG_EVERY == 100
LATE_MS_CAP == 3
g_osc_increment == 2
BUF_LENGTH == 3
MaxInWrites == 3
MaxNow == 2
MaxCorruptWrites == 2

Pow2(n) == IF n = 0 THEN 1 ELSE IF n = 1 THEN 2 ELSE IF n = 2 THEN 4
           ELSE IF n = 3 THEN 8 ELSE IF n = 4 THEN 16 ELSE IF n = 5 THEN 32
           ELSE 64

\* header.sequence is a uint32 taken from an int32 atomic: it wraps at 2^32
\* (scaled: 2^SeqBits).
SEQ_MOD == Pow2(SeqBits)

Rings == {"IN", "OUT", "DBG"}

Capacity(r) == CASE r = "IN"  -> IN_BUFFER_SIZE
                 [] r = "OUT" -> OUT_BUFFER_SIZE
                 [] r = "DBG" -> DEBUG_BUFFER_SIZE

HeadField(r) == CASE r = "IN"  -> "in_head"
                  [] r = "OUT" -> "out_head"
                  [] r = "DBG" -> "debug_head"

TailField(r) == CASE r = "IN"  -> "in_tail"
                  [] r = "OUT" -> "out_tail"
                  [] r = "DBG" -> "debug_tail"

\* The value of a field the code never assigns (Message::_padding of a local
\* Message): any word.
UninitWord == {0, 1}

PayloadBytes == 0..PayloadByteMax

\* All payloads of n cells whose cells carry the same byte.
Payloads(maxLen) == { [i \in 1..n |-> b] : n \in 0..maxLen, b \in PayloadBytes }

NoFrame == [seq |-> -1, len |-> 0, data |-> <<>>]

(***************************************************************************)
(* Ring memory helpers.                                                    *)
(***************************************************************************)
\* memcpy(dst + at, cells, Len(cells)) into one ring's array.
MemCpy(mem, at, cells) ==
    [i \in DOMAIN mem |->
        IF i >= at /\ i < at + Len(cells) THEN cells[i - at + 1] ELSE mem[i]]

\* memset(dst + at, 0, n)
MemSet0(mem, at, n) ==
    [i \in DOMAIN mem |-> IF i >= at /\ i < at + n THEN 0 ELSE mem[i]]

\* variant of the free-byte count that keeps no byte in reserve
available_space_no_reserve(head, tail, buffer_size) ==
    ((buffer_size - 1 - head + tail) % buffer_size) + 1

\* inline helper of the ring: free bytes with one byte kept in reserve
available_space(head, tail, buffer_size) ==
    (buffer_size - 1 - head + tail) % buffer_size

\* The sequence counter a write on ring r draws from.
SeqField(r) == IF r = "OUT" THEN "out_sequence" ELSE "debug_sequence"

\* the space check of ring_buffer_write: `available < header.length` drops
\* a status update that stores the bit instead of or-ing it in
fetch_or_store(flags, bit) == {bit}

\* status_flags.fetch_or(bit)
fetch_or(flags, bit) == flags \cup {bit}

HasSpace_OffByOne(available, header_length) == ~(available + 1 < header_length)

HasSpace(available, header_length) == ~(available < header_length)

\* a writer that lets the frame run over the ring end
WrapHead_Straddle(wrap, current_head) == current_head

\* "Wrap head to beginning": where the frame goes
WrapHead(wrap, current_head) == IF wrap THEN 0 ELSE current_head

(***************************************************************************)
(* ring_buffer_write, as a function of the shared state                    *)
(*   M = [c |-> control, m |-> metrics, s |-> ring_buffer_storage].        *)
(* hu, pu: the unassigned _padding words of the header and of the padding  *)
(* marker.  Returns the new shared state and the return value, and, as     *)
(* history, where the frame went (at) and what was done with the bytes     *)
(* left before the ring end (pad).                                         *)
(***************************************************************************)
ring_buffer_write(M, r, data, metricsBound, hu, pu) ==
    LET buffer_size == Capacity(r)
        seqField == SeqField(r)
        header_length == HEADER_SIZE + Len(data)
        header_sequence == M.c[seqField]
        c1 == [M.c EXCEPT ![seqField] = (@ + 1) % SEQ_MOD]
        current_head == c1[HeadField(r)]
        current_tail == c1[TailField(r)]
        available == available_space(current_head, current_tail, buffer_size)
        space_to_end == buffer_size - current_head
        wrap == header_length > space_to_end
        mem0 == M.s[r]
        mem1 == IF ~wrap THEN mem0
                ELSE IF space_to_end >= HEADER_SIZE
                     THEN MemCpy(mem0, current_head, <<PADDING_MAGIC, 0, 0, pu>>)
                     ELSE MemSet0(mem0, current_head, space_to_end)
        head1 == WrapHead(wrap, current_head)
        pad == IF ~wrap THEN "none"
               ELSE IF space_to_end >= HEADER_SIZE THEN "sentinel"
               ELSE "zeroed"
        mem2 == MemCpy(mem1, head1,
                       <<MESSAGE_MAGIC, header_length, header_sequence, hu>>)
        mem3 == MemCpy(mem2, head1 + HEADER_SIZE, data)
    IN  IF ~HasSpace(available, header_length)
        THEN [c |-> [c1 EXCEPT !.status_flags = fetch_or(@, "STATUS_BUFFER_FULL")],
              m |-> IF metricsBound
                    THEN [M.m EXCEPT !.messages_dropped = @ + 1]
                    ELSE M.m,
              s |-> M.s,
              ret |-> FALSE,
              seq |-> header_sequence, at |-> -1, pad |-> "none"]
        ELSE [c |-> [c1 EXCEPT ![HeadField(r)] =
                                   (head1 + header_length) % buffer_size],
              m |-> M.m,
              s |-> [M.s EXCEPT ![r] = mem3],
              ret |-> TRUE,
              seq |-> header_sequence, at |-> head1, pad |-> pad]

Shared == [c |-> control, m |-> metrics, s |-> ring_buffer_storage]


(***************************************************************************)
(* The bundle scheduler (scheduler/BundleScheduler.h).  Times are int64    *)
(* (scaled: TimeBits bits, two's complement).                              *)
(***************************************************************************)
INT64_MAX == Pow2(TimeBits - 1) - 1

Slots == 0..(MAX_SCHEDULED_BUNDLES - 1)

\* ScheduledBundle()
NewBundle == [mTime |-> 0, mSize |-> 0, mWorld |-> FALSE, mStabilityCount |-> 0,
              mData |-> <<>>, mInUse |-> FALSE]

\* BundleScheduler(): mQueue holds the entries mQueue[0..mQueueSize)
InitScheduler == [mPool |-> [i \in Slots |-> NewBundle], mQueue |-> <<>>,
                  mStabilityCounter |-> 0]

mQueueSize(S) == Len(S.mQueue)

\* QueueEntry::operator<
EntryLess_Reversed(a, b) ==
    IF a.time > b.time THEN TRUE
    ELSE IF a.time < b.time THEN FALSE
    ELSE a.stabilityCount < b.stabilityCount

EntryLess_NoTieBreak(a, b) == a.time <= b.time

EntryLess(a, b) ==
    IF a.time < b.time THEN TRUE
    ELSE IF a.time > b.time THEN FALSE
    ELSE a.stabilityCount < b.stabilityCount

\* ScheduledBundle::Init
BundleInit(b, world, time, data, size, stabilityCount) ==
    [mTime |-> time, mSize |-> size, mWorld |-> world,
     mStabilityCount |-> stabilityCount,
     mData |-> IF size > 0 /\ size <= SLOT_DATA_SIZE THEN data ELSE b.mData,
     mInUse |-> TRUE]

\* ScheduledBundle::Release
BundleRelease_KeepInUse(b) == [b EXCEPT !.mSize = 0, !.mWorld = FALSE]

BundleRelease(b) == [b EXCEPT !.mInUse = FALSE, !.mSize = 0, !.mWorld = FALSE]

\* an allocation that hands out the first slot whether it is in use or not
AllocateSlot_First(S) == 0

\* BundleScheduler::AllocateSlot: the first slot not in use, or -1
AllocateSlot(S) ==
    IF \E i \in Slots : ~S.mPool[i].mInUse
    THEN CHOOSE i \in Slots :
            /\ ~S.mPool[i].mInUse
            /\ \A j \in Slots : j < i => S.mPool[j].mInUse
    ELSE -1

\* the insertion point of Add: the first entry the new one is less than
InsertPos(queue, entry) ==
    IF \E i \in 1..Len(queue) : EntryLess(entry, queue[i])
    THEN CHOOSE i \in 1..Len(queue) :
            /\ EntryLess(entry, queue[i])
            /\ \A j \in 1..(i - 1) : ~EntryLess(entry, queue[j])
    ELSE Len(queue) + 1

InsertAt(queue, pos, entry) ==
    SubSeq(queue, 1, pos - 1) \o <<entry>> \o SubSeq(queue, pos, Len(queue))

\* the capacity check of Add and IsFull
IsFull_OffByOne(S) == mQueueSize(S) > MAX_SCHEDULED_BUNDLES

IsFull(S) == mQueueSize(S) >= MAX_SCHEDULED_BUNDLES

\* BundleScheduler::Add: [S |-> scheduler after, ret |-> return value]
SchedulerAdd(S, world, time, data, size) ==
    LET slot == AllocateSlot(S)
        bundle == BundleInit(S.mPool[slot], world, time, data, size,
                             S.mStabilityCounter)
        entry == [time |-> time, stabilityCount |-> bundle.mStabilityCount,
                  poolIndex |-> slot]
    IN  IF mQueueSize(S) >= MAX_SCHEDULED_BUNDLES THEN [S |-> S, ret |-> FALSE]
        ELSE IF slot < 0 THEN [S |-> S, ret |-> FALSE]
        ELSE [S |-> [mPool |-> [S.mPool EXCEPT ![slot] = bundle],
                     mQueue |-> InsertAt(S.mQueue, InsertPos(S.mQueue, entry),
                                         entry),
                     mStabilityCounter |-> S.mStabilityCounter + 1],
              ret |-> TRUE]

\* BundleScheduler::NextTime
NextTime(S) == IF mQueueSize(S) <= 0 THEN INT64_MAX ELSE S.mQueue[1].time

\* BundleScheduler::Remove: [S |-> scheduler after, slot |-> pool index or -1]
SchedulerRemove(S) ==
    IF mQueueSize(S) <= 0 THEN [S |-> S, slot |-> -1]
    ELSE [S |-> [S EXCEPT !.mQueue = Tail(@)], slot |-> S.mQueue[1].poolIndex]

\* g_scheduler.ReleaseSlot(bundle): returns the slot to the pool
ReleaseSlot(S, slot) == [S EXCEPT !.mPool[slot] = BundleRelease(@)]

\* BundleScheduler::Clear
\* a clear that empties the queue and forgets the pool
SchedulerClear_QueueOnly(S) == [S EXCEPT !.mQueue = <<>>]

SchedulerClear(S) ==
    [S EXCEPT !.mQueue = <<>>, !.mPool = [i \in Slots |-> BundleRelease(@[i])]]

(***************************************************************************)
(* Initial state: init_memory has run (audio_processor.cpp:248-318).       *)
(***************************************************************************)
InitControl ==
    [in_head |-> 0, in_tail |-> 0, out_head |-> 0, out_tail |-> 0,
     debug_head |-> 0, debug_tail |-> 0,
     in_sequence |-> 0, out_sequence |-> 0, debug_sequence |-> 0,
     status_flags |-> {}]

InitMetrics ==
    [messages_processed |-> 0, messages_dropped |-> 0,
     messages_sequence_gaps |-> 0,
     scheduler_queue_depth |-> 0, scheduler_queue_max |-> 0,
     scheduler_queue_dropped |-> 0,
     scheduler_lates |-> 0, scheduler_max_late_ms |-> 0,
     scheduler_last_late_ms |-> 0]

\* process_audio is not running
\* (mSampleOffset is the engine's; bornAtBegin, avail, iterations,
\* dispatches, performed and phases are history: the adds made, and the
\* frames waiting, when the call began, the passes the drain loop and the
\* dispatch loop have made, the bundles the call has performed, and the
\* steps the call has taken so far, in order)
RenderIdle == [at |-> "idle", in_head |-> 0, messages_this_frame |-> 0,
               currentOscTime |-> 0, schedTime |-> 0, bundle |-> -1,
               mSampleOffset |-> 0, mSubsampleOffset |-> 0,
               bornAtBegin |-> 0, avail |-> 0,
               iterations |-> 0, dispatches |-> 0, performed |-> <<>>,
               phases |-> <<>>]

InitStatics == [last_in_sequence |-> -1, corruption_count |-> 0,
                gap_log_count |-> 0, late_count |-> 0,
                memory_initialized |-> TRUE, g_world |-> TRUE,
                osc_increment |-> g_osc_increment,
                logged_buffer_full |-> FALSE]

InitStorage == [r \in Rings |-> [i \in 0..(Capacity(r) - 1) |-> 0]]

(***************************************************************************)
(* The node tree mirror (node_tree.cpp).  An entry is the six id fields of  *)
(* NodeEntry; def_name is left out.  A Node handed to the callbacks is the  *)
(* record of the ids the code reads through its pointers, -1 for a null     *)
(* pointer.                                                                 *)
(***************************************************************************)
NT_HASH_CAPACITY == 2 * NODE_TREE_MIRROR_MAX_NODES

NT_HASH_EMPTY == -2147483647 - 1

MirrorSlots == 0 .. NODE_TREE_MIRROR_MAX_NODES - 1

EmptyEntry == [id |-> -1, parent_id |-> -1, is_group |-> -1, prev_id |-> -1,
               next_id |-> -1, head_id |-> -1]

\* the integer hash, scaled: it mixes the key and masks it to a bucket, so
\* that some ids share a natural bucket and every bucket is some id's
nt_hash_func(key) == (key \div 2) % NT_HASH_CAPACITY

RECURSIVE nt_hash_vacant(_, _)
\* the first empty bucket from idx on
nt_hash_vacant(h, idx) ==
    IF h[idx].key = NT_HASH_EMPTY THEN idx
    ELSE nt_hash_vacant(h, (idx + 1) % NT_HASH_CAPACITY)

nt_hash_insert(h, key, value) ==
    [h EXCEPT ![nt_hash_vacant(h, nt_hash_func(key))] =
                  [key |-> key, value |-> value]]

RECURSIVE nt_hash_probe(_, _, _)
\* the first bucket from idx on that is empty or holds key
nt_hash_probe(h, key, idx) ==
    IF h[idx].key = NT_HASH_EMPTY \/ h[idx].key = key THEN idx
    ELSE nt_hash_probe(h, key, (idx + 1) % NT_HASH_CAPACITY)

nt_hash_find(h, key) ==
    LET idx == nt_hash_probe(h, key, nt_hash_func(key))
    IN  IF h[idx].key = key THEN h[idx].value ELSE -1

\* an R4 that forgets that the probe sequence wraps
nt_hash_between_NoWrap(i, r, j) == i < r /\ r <= j

\* R4: bucket r lies cyclically in (i, j]
nt_hash_between(i, r, j) ==
    IF i <= j THEN i < r /\ r <= j ELSE i < r \/ r <= j

RECURSIVE nt_hash_scan(_, _, _)
\* R2..R4: the next bucket after j whose entry must move to i, or -1
nt_hash_scan(h, i, j) ==
    LET n == (j + 1) % NT_HASH_CAPACITY
    IN  IF h[n].key = NT_HASH_EMPTY THEN -1
        ELSE IF nt_hash_between(i, nt_hash_func(h[n].key), n)
        THEN nt_hash_scan(h, i, n)
        ELSE n

RECURSIVE nt_hash_shift(_, _)
\* R1, R5: empty bucket i and pull displaced entries back
nt_hash_shift(h, i) ==
    LET emptied == [h EXCEPT ![i].key = NT_HASH_EMPTY]
        j == nt_hash_scan(emptied, i, i)
    IN  IF j < 0 THEN emptied
        ELSE nt_hash_shift([emptied EXCEPT ![i] = emptied[j]], j)

nt_hash_remove(h, key) ==
    LET idx == nt_hash_probe(h, key, nt_hash_func(key))
    IN  IF h[idx].key = NT_HASH_EMPTY THEN h ELSE nt_hash_shift(h, idx)

\* init_memory's memset and header stores, then NodeTree_InitIndices
NodeTree_InitIndices ==
    [node_count |-> 0, version |-> 0, dropped_count |-> 0,
     entries |-> [i \in MirrorSlots |-> EmptyEntry],
     nt_free_next |-> [i \in MirrorSlots |->
                          IF i < NODE_TREE_MIRROR_MAX_NODES - 1 THEN i + 1
                          ELSE -1],
     nt_free_head |-> 0,
     nt_hash |-> [i \in 0 .. NT_HASH_CAPACITY - 1 |->
                     [key |-> NT_HASH_EMPTY, value |-> 0]]]

NodeTree_FindIndex(T, nodeId) == nt_hash_find(T.nt_hash, nodeId)

NodeTree_FindEmptySlot(T) == IF T.nt_free_head < 0 THEN -1 ELSE T.nt_free_head

\* entries[slot].next_id = v when nodeId has a slot
PatchNext(T, nodeId, v) ==
    LET slot == NodeTree_FindIndex(T, nodeId)
    IN  IF slot >= 0 THEN [T EXCEPT !.entries[slot].next_id = v] ELSE T

PatchPrev(T, nodeId, v) ==
    LET slot == NodeTree_FindIndex(T, nodeId)
    IN  IF slot >= 0 THEN [T EXCEPT !.entries[slot].prev_id = v] ELSE T

PatchHead(T, nodeId, v) ==
    LET slot == NodeTree_FindIndex(T, nodeId)
    IN  IF slot >= 0 THEN [T EXCEPT !.entries[slot].head_id = v] ELSE T

\* The stores of one callback, in program order, grouped into stages.
\* NodeTree_Add: pop the slot, fill the entry, insert it in the hash table
AddEntry(T, node) ==
    LET slot == NodeTree_FindEmptySlot(T)
    IN  [T EXCEPT !.nt_free_head = T.nt_free_next[slot],
                  !.entries[slot] =
                      [id |-> node.mID, parent_id |-> node.mParent,
                       is_group |-> IF node.mIsGroup THEN 1 ELSE 0,
                       prev_id |-> node.mPrev, next_id |-> node.mNext,
                       head_id |-> IF node.mIsGroup THEN node.mHead ELSE -1],
                  !.nt_hash = nt_hash_insert(@, node.mID, slot)]

\* the links of the new neighbours and of the parent
LinkNew(T, node) ==
    LET a == IF node.mPrev # -1 THEN PatchNext(T, node.mPrev, node.mID) ELSE T
        b == IF node.mNext # -1 THEN PatchPrev(a, node.mNext, node.mID) ELSE a
    IN  IF node.mParent # -1 /\ node.mPrev = -1
        THEN PatchHead(b, node.mParent, node.mID) ELSE b

\* an add that forgets the version
AddHeader_NoVersion(T) == [T EXCEPT !.node_count = @ + 1]

AddHeader(T) == [T EXCEPT !.node_count = @ + 1, !.version = @ + 1]

AddDropped(T) == [T EXCEPT !.dropped_count = @ + 1]

\* NodeTree_Remove of a mirrored node: the neighbours' and the parent's links
RemoveLinks(T, nodeId) ==
    LET entry == T.entries[NodeTree_FindIndex(T, nodeId)]
        a == IF entry.prev_id # -1
             THEN PatchNext(T, entry.prev_id, entry.next_id) ELSE T
        b == IF entry.next_id # -1
             THEN PatchPrev(a, entry.next_id, entry.prev_id) ELSE a
    IN  IF entry.parent_id # -1 /\ entry.prev_id = -1
        THEN PatchHead(b, entry.parent_id, entry.next_id) ELSE b

\* a remove that does not give the slot back
RemoveEntry_LeakSlot(T, nodeId) ==
    LET slot == NodeTree_FindIndex(T, nodeId)
    IN  [T EXCEPT !.nt_hash = nt_hash_remove(@, nodeId),
                  !.entries[slot].id = -1]

RemoveEntry(T, nodeId) ==
    LET slot == NodeTree_FindIndex(T, nodeId)
    IN  [T EXCEPT !.nt_hash = nt_hash_remove(@, nodeId),
                  !.entries[slot].id = -1,
                  !.nt_free_next[slot] = T.nt_free_head,
                  !.nt_free_head = slot]

\* a remove that forgets the count
RemoveHeader_KeepCount(T) == [T EXCEPT !.version = @ + 1]

RemoveHeader(T) ==
    [T EXCEPT !.node_count = IF @ > 0 THEN @ - 1 ELSE @, !.version = @ + 1]

RemoveDropped(T) ==
    IF T.dropped_count > 0 THEN [T EXCEPT !.dropped_count = @ - 1] ELSE T

\* NodeTree_Update of a mirrored node: its own position
UpdateEntry(T, node) ==
    LET slot == NodeTree_FindIndex(T, node.mID)
    IN  [T EXCEPT !.entries[slot] =
             [@ EXCEPT !.parent_id = node.mParent, !.prev_id = node.mPrev,
                       !.next_id = node.mNext,
                       !.head_id = IF node.mIsGroup THEN node.mHead ELSE @]]

\* a move that leaves the old neighbours' links as they were
UnlinkOld_Skip(T, node, old) == T

\* the hole it left: old holds the ids read before UpdateEntry
UnlinkOld(T, node, old) ==
    LET a == IF old.prev_id # -1
             THEN PatchNext(T, old.prev_id, old.next_id) ELSE T
        b == IF old.next_id # -1
             THEN PatchPrev(a, old.next_id, old.prev_id) ELSE a
        oldParentSlot == NodeTree_FindIndex(b, old.parent_id)
    IN  IF old.parent_id # -1 /\ old.prev_id = -1 /\ oldParentSlot >= 0
           /\ b.entries[oldParentSlot].head_id = node.mID
        THEN [b EXCEPT !.entries[oldParentSlot].head_id = old.next_id]
        ELSE b

UpdateHeader(T) == [T EXCEPT !.version = @ + 1]

\* the stages a callback will run, decided by its first lookup
NodeTree_Add_Plan(T) ==
    IF NodeTree_FindEmptySlot(T) < 0 THEN <<"AddDropped">>
    ELSE <<"AddEntry", "LinkNew", "AddHeader">>

NodeTree_Remove_Plan(T, nodeId) ==
    IF NodeTree_FindIndex(T, nodeId) < 0 THEN <<"RemoveDropped">>
    ELSE <<"RemoveLinks", "RemoveEntry", "RemoveHeader">>

NodeTree_Update_Plan(T, node) ==
    IF NodeTree_FindIndex(T, node.mID) < 0 THEN NodeTree_Add_Plan(T)
    ELSE <<"UpdateEntry", "UnlinkOld", "LinkNew", "UpdateHeader">>

\* the entry of the node as the callback finds it (old ids of an update)
OldEntry(T, nodeId) ==
    LET slot == NodeTree_FindIndex(T, nodeId)
    IN  IF slot >= 0 THEN T.entries[slot] ELSE EmptyEntry

Stage(T, stage, node, old) ==
    CASE stage = "AddDropped" -> AddDropped(T)
      [] stage = "AddEntry" -> AddEntry(T, node)
      [] stage = "LinkNew" -> LinkNew(T, node)
      [] stage = "AddHeader" -> AddHeader(T)
      [] stage = "RemoveDropped" -> RemoveDropped(T)
      [] stage = "RemoveLinks" -> RemoveLinks(T, node.mID)
      [] stage = "RemoveEntry" -> RemoveEntry(T, node.mID)
      [] stage = "RemoveHeader" -> RemoveHeader(T)
      [] stage = "UpdateEntry" -> UpdateEntry(T, node)
      [] stage = "UnlinkOld" -> UnlinkOld(T, node, old)
      [] stage = "UpdateHeader" -> UpdateHeader(T)

RECURSIVE Stages(_, _, _, _)
Stages(T, plan, node, old) ==
    IF plan = <<>> THEN T
    ELSE Stages(Stage(T, Head(plan), node, old), Tail(plan), node, old)

NodeTree_Add(T, node) ==
    Stages(T, NodeTree_Add_Plan(T), node, EmptyEntry)

NodeTree_Remove(T, nodeId) ==
    Stages(T, NodeTree_Remove_Plan(T, nodeId), [mID |-> nodeId],
           EmptyEntry)

NodeTree_Update(T, node) ==
    Stages(T, NodeTree_Update_Plan(T, node), node, OldEntry(T, node.mID))

\* the engine's root group, as init_memory hands it to NodeTree_Add
RootId == 0

RootNode(children) ==
    [mID |-> RootId, mParent |-> -1, mPrev |-> -1, mNext |-> -1,
     mIsGroup |-> TRUE,
     mHead |-> IF children = <<>> THEN -1 ELSE children[1]]

InitTree == NodeTree_Add(NodeTree_InitIndices, RootNode(<<>>))

\* the engine has the root group only; no callback and no read in progress
InitEngine == [children |-> <<>>, inner |-> <<>>, ops |-> 0, plan |-> <<>>,
               overflowed |-> FALSE,
               node |-> RootNode(<<>>), old |-> EmptyEntry,
               stable |-> <<[node_count |-> InitTree.node_count,
                             entries |-> InitTree.entries]>>]

InitReader == [pc |-> "idle", version |-> 0, next |-> 0,
               entries |-> [i \in MirrorSlots |-> EmptyEntry]]

InitCapture == [enabled |-> 0, head |-> 0]

(***************************************************************************)
(* The UUID rewriter (uuid_rewriter.cpp): two open-addressing tables with  *)
(* linear probing and backward-shift deletion, UUID -> node id and node id *)
(* -> UUID, and the shared counter new node ids are taken from.  A UUID is *)
(* its two words hi and lo.                                                 *)
(***************************************************************************)
UUID_HASH_CAPACITY == 3

FWD_EMPTY == -1

REV_EMPTY == -2147483647 - 1

\* the value of the shared counter the first id is taken from
NodeIdStart == 1000

UuidBuckets == 0 .. UUID_HASH_CAPACITY - 1

RECURSIVE BitXor(_, _)
\* a ^ b on naturals
BitXor(a, b) ==
    IF a = 0 THEN b
    ELSE IF b = 0 THEN a
    ELSE 2 * BitXor(a \div 2, b \div 2) + ((a + b) % 2)

\* (hi ^ (hi >> 32) ^ lo ^ (lo >> 32)) & UUID_HASH_MASK, for words whose
\* upper halves are zero
fwd_hash_func(hi, lo) == BitXor(hi, lo) % UUID_HASH_CAPACITY

\* the integer hash of a node id, scaled: ids that follow each other share a
\* natural bucket two by two
rev_hash_func(key) == (key \div 2) % UUID_HASH_CAPACITY

\* a key comparison that looks at the low word only
fwd_match_LowOnly(e, hi, lo) == e.uuid_lo = lo

\* the key comparison of the forward table
fwd_match(e, hi, lo) == e.uuid_hi = hi /\ e.uuid_lo = lo

RECURSIVE fwd_probe(_, _, _, _, _)
\* The probe loop of fwd_find and uuid_insert from bucket idx on, n buckets
\* visited so far: the first bucket that is empty or holds the UUID.  Once
\* every bucket was visited and none is empty or a match the loop is back
\* where it started with nothing changed, and never ends: -1.
fwd_probe(h, hi, lo, idx, n) ==
    IF n = UUID_HASH_CAPACITY THEN -1
    ELSE IF h[idx].node_id = FWD_EMPTY \/ fwd_match(h[idx], hi, lo) THEN idx
    ELSE fwd_probe(h, hi, lo, (idx + 1) % UUID_HASH_CAPACITY, n + 1)

\* fwd_find: [ret |-> node id or -1, ends |-> whether the loop ends]
fwd_find(h, hi, lo) ==
    LET idx == fwd_probe(h, hi, lo, fwd_hash_func(hi, lo), 0)
    IN  IF idx < 0 THEN [ret |-> -1, ends |-> FALSE]
        ELSE IF h[idx].node_id = FWD_EMPTY THEN [ret |-> -1, ends |-> TRUE]
        ELSE [ret |-> h[idx].node_id, ends |-> TRUE]

RECURSIVE fwd_scan(_, _, _)
\* R2..R4 on the forward table
fwd_scan(h, i, j) ==
    LET n == (j + 1) % UUID_HASH_CAPACITY
    IN  IF h[n].node_id = FWD_EMPTY THEN -1
        ELSE IF nt_hash_between(i, fwd_hash_func(h[n].uuid_hi, h[n].uuid_lo), n)
        THEN fwd_scan(h, i, n)
        ELSE n

RECURSIVE fwd_shift(_, _)
\* R1, R5 on the forward table
fwd_shift(h, i) ==
    LET emptied == [h EXCEPT ![i].node_id = FWD_EMPTY]
        j == fwd_scan(emptied, i, i)
    IN  IF j < 0 THEN emptied
        ELSE fwd_shift([emptied EXCEPT ![i] = emptied[j]], j)

\* fwd_remove
fwd_remove(h, hi, lo) ==
    LET idx == fwd_probe(h, hi, lo, fwd_hash_func(hi, lo), 0)
    IN  IF idx < 0 \/ h[idx].node_id = FWD_EMPTY THEN h ELSE fwd_shift(h, idx)

RECURSIVE rev_probe(_, _, _, _)
\* the probe loop of rev_find: as fwd_probe, on the node id
rev_probe(h, node_id, idx, n) ==
    IF n = UUID_HASH_CAPACITY THEN -1
    ELSE IF h[idx].node_id = REV_EMPTY \/ h[idx].node_id = node_id THEN idx
    ELSE rev_probe(h, node_id, (idx + 1) % UUID_HASH_CAPACITY, n + 1)

\* rev_find: [found, hi, lo, ends |-> whether the loop ends]
rev_find(h, node_id) ==
    LET idx == rev_probe(h, node_id, rev_hash_func(node_id), 0)
    IN  IF idx < 0 THEN [found |-> FALSE, hi |-> 0, lo |-> 0, ends |-> FALSE]
        ELSE IF h[idx].node_id = REV_EMPTY
        THEN [found |-> FALSE, hi |-> 0, lo |-> 0, ends |-> TRUE]
        ELSE [found |-> TRUE, hi |-> h[idx].uuid_hi, lo |-> h[idx].uuid_lo,
              ends |-> TRUE]

RECURSIVE rev_vacant(_, _, _)
\* the probe loop of rev_insert: the first empty bucket, -1 if there is none
rev_vacant(h, idx, n) ==
    IF n = UUID_HASH_CAPACITY THEN -1
    ELSE IF h[idx].node_id = REV_EMPTY THEN idx
    ELSE rev_vacant(h, (idx + 1) % UUID_HASH_CAPACITY, n + 1)

\* rev_insert: [h |-> table after, ends |-> whether the loop ends]
rev_insert(h, node_id, hi, lo) ==
    LET idx == rev_vacant(h, rev_hash_func(node_id), 0)
    IN  IF idx < 0 THEN [h |-> h, ends |-> FALSE]
        ELSE [h |-> [h EXCEPT ![idx] = [node_id |-> node_id, uuid_hi |-> hi,
                                        uuid_lo |-> lo]],
              ends |-> TRUE]

RECURSIVE rev_scan(_, _, _)
\* R2..R4 on the reverse table
rev_scan(h, i, j) ==
    LET n == (j + 1) % UUID_HASH_CAPACITY
    IN  IF h[n].node_id = REV_EMPTY THEN -1
        ELSE IF nt_hash_between(i, rev_hash_func(h[n].node_id), n)
        THEN rev_scan(h, i, n)
        ELSE n

RECURSIVE rev_shift(_, _)
\* R1, R5 on the reverse table
rev_shift(h, i) ==
    LET emptied == [h EXCEPT ![i].node_id = REV_EMPTY]
        j == rev_scan(emptied, i, i)
    IN  IF j < 0 THEN emptied
        ELSE rev_shift([emptied EXCEPT ![i] = emptied[j]], j)

\* rev_remove
rev_remove(h, node_id) ==
    LET idx == rev_probe(h, node_id, rev_hash_func(node_id), 0)
    IN  IF idx < 0 \/ h[idx].node_id = REV_EMPTY THEN h ELSE rev_shift(h, idx)

\* uuid_rewriter_init; spin names the probe loop that never ends, if any
InitUuid ==
    [fwd_hash |-> [i \in UuidBuckets |->
                      [uuid_hi |-> 0, uuid_lo |-> 0, node_id |-> FWD_EMPTY]],
     rev_hash |-> [i \in UuidBuckets |->
                      [node_id |-> REV_EMPTY, uuid_hi |-> 0, uuid_lo |-> 0]],
     uuid_map_count |-> 0,
     node_id_counter |-> NodeIdStart,
     spin |-> "no",
     idx |-> 0]

\* uuid_insert: [U |-> the rewriter's state after, ret |-> the node id]
uuid_insert(U, hi, lo) ==
    LET idx == fwd_probe(U.fwd_hash, hi, lo, fwd_hash_func(hi, lo), 0)
        new_id == U.node_id_counter
        r == rev_insert(U.rev_hash, new_id, hi, lo)
    IN  IF idx < 0
        THEN [U |-> [U EXCEPT !.spin = "uuid_insert",
                              !.idx = fwd_hash_func(hi, lo)],
              ret |-> -1]
        ELSE IF U.fwd_hash[idx].node_id # FWD_EMPTY
        THEN [U |-> U, ret |-> U.fwd_hash[idx].node_id]
        ELSE [U |-> [U EXCEPT
                        !.node_id_counter = @ + 1,
                        !.fwd_hash[idx] = [uuid_hi |-> hi, uuid_lo |-> lo,
                                           node_id |-> new_id],
                        !.rev_hash = r.h,
                        !.uuid_map_count = IF r.ends THEN @ + 1 ELSE @,
                        !.spin = IF r.ends THEN "no" ELSE "rev_insert",
                        !.idx = IF r.ends THEN 0 ELSE rev_hash_func(new_id)],
              ret |-> new_id]

\* uuid_delete_by_id, called once rev_find has found node_id
uuid_delete_by_id(U, node_id) ==
    LET f == rev_find(U.rev_hash, node_id)
    IN  IF ~f.found THEN U
        ELSE [U EXCEPT !.rev_hash = rev_remove(@, node_id),
                       !.fwd_hash = fwd_remove(@, f.hi, f.lo),
                       !.uuid_map_count = IF @ > 0 THEN @ - 1 ELSE @]

InitRings ==
    /\ tree = InitTree
    /\ engine = InitEngine
    /\ reader = InitReader
    /\ capture = InitCapture
    /\ uuid = InitUuid
    /\ control = InitControl
    /\ metrics = InitMetrics
    /\ ring_buffer_storage = InitStorage
    /\ written = [r \in Rings |-> <<>>]
    /\ observed = [r \in Rings |-> -1]
    /\ g_scheduler = InitScheduler
    /\ pending = {}
    /\ born = [n |-> 0, of |-> [i \in Slots |-> 0]]
    /\ render = RenderIdle
    /\ statics = InitStatics
    /\ hist = [in |-> <<>>, sched |-> <<>>, cleared |-> FALSE, removed |-> FALSE,
               consumed |-> <<>>, blocked |-> {}, clearMark |-> 0,
               clearAt |-> -1, init |-> "ok"]
    /\ last = [op |-> "init"]

(***************************************************************************)
(* Producers on the render thread.                                         *)
(***************************************************************************)
\* The record an operation leaves in `last`.
WriteRecord(op, r, data, res) ==
    [op |-> op, ring |-> r, ret |-> res.ret, len |-> HEADER_SIZE + Len(data),
     avail |-> available_space(control[HeadField(r)], control[TailField(r)],
                               Capacity(r)),
     head |-> control[HeadField(r)], tail |-> control[TailField(r)],
     seq |-> res.seq, data |-> data, at |-> res.at, pad |-> res.pad]

RingWrite(op, r, data, metricsBound, hu, pu) ==
    LET res == ring_buffer_write(Shared, r, data, metricsBound, hu, pu)
    IN  /\ control[SeqField(r)] < MaxWrites
        /\ control' = res.c
        /\ metrics' = res.m
        /\ ring_buffer_storage' = res.s
        /\ written' = IF res.ret
                      THEN [written EXCEPT ![r] = Append(@,
                               [seq |-> res.seq, len |-> HEADER_SIZE + Len(data),
                                data |-> data])]
                      ELSE written
        /\ UNCHANGED <<uuid, tree, engine, reader, capture,
                       observed, g_scheduler, pending, born, render, statics, hist>>
        /\ last' = WriteRecord(op, r, data, res)

\* osc_reply_to_ring_buffer(addr, msg, size): the engine's reply callback
osc_reply_to_ring_buffer ==
    \E data \in Payloads(OUT_BUFFER_SIZE - HEADER_SIZE), hu \in UninitWord,
       pu \in UninitWord :
        RingWrite("osc_reply", "OUT", data, TRUE, hu, pu)

\* worklet_debug_raw(msg, len): a pre-formatted line, len > 0, no metrics
worklet_debug_raw ==
    \E data \in Payloads(DEBUG_BUFFER_SIZE - HEADER_SIZE), hu \in UninitWord,
       pu \in UninitWord :
        /\ Len(data) > 0
        /\ RingWrite("debug_raw", "DBG", data, FALSE, hu, pu)

(***************************************************************************)
(* The control thread's reader of the OUT and DBG rings.                   *)
(***************************************************************************)
\* The header at `tail`, read in two copies when it straddles the ring end.
ReadCells(mem, at, n, size) == [i \in 1..n |-> mem[(at + i - 1) % size]]

RingRead(r) ==
    LET size == Capacity(r)
        head == control[HeadField(r)]
        tail == control[TailField(r)]
        mem == ring_buffer_storage[r]
        hdr == ReadCells(mem, tail, HEADER_SIZE, size)
        magic == hdr[1]
        length == hdr[2]
        frame == [seq |-> hdr[3], len |-> length,
                  data |-> ReadCells(mem, (tail + HEADER_SIZE) % size,
                                     length - HEADER_SIZE, size)]
    IN  /\ head # tail
        /\ UNCHANGED <<uuid, tree, engine, reader, capture,
                       metrics, ring_buffer_storage, g_scheduler, pending, born,
                       render, statics, hist>>
        /\ IF magic = PADDING_MAGIC
           THEN /\ control' = [control EXCEPT ![TailField(r)] = 0]
                /\ UNCHANGED <<written, observed>>
                /\ last' = [op |-> "skip_padding", ring |-> r]
           ELSE IF magic # MESSAGE_MAGIC \/ length < HEADER_SIZE \/ length > size
           THEN /\ control' = [control EXCEPT ![TailField(r)] = (tail + 1) % size]
                /\ UNCHANGED <<written, observed>>
                /\ last' = [op |-> "resync", ring |-> r]
           ELSE /\ control' = [control EXCEPT ![TailField(r)] =
                                                  (tail + length) % size]
                /\ written' = [written EXCEPT ![r] =
                                  IF @ = <<>> THEN @ ELSE Tail(@)]
                /\ observed' = [observed EXCEPT ![r] = frame.seq]
                /\ last' = [op |-> "read", ring |-> r, frame |-> frame,
                            expected |-> IF written[r] = <<>> THEN NoFrame
                                         ELSE Head(written[r])]

OutRead == RingRead("OUT")
DbgRead == RingRead("DBG")

NextOut == osc_reply_to_ring_buffer \/ OutRead
SpecOut == InitRings /\ [][NextOut]_vars

NextDbg == worklet_debug_raw \/ DbgRead
SpecDbg == InitRings /\ [][NextDbg]_vars

(***************************************************************************)
(* A client of the scheduler calling its operations in any order.          *)
(***************************************************************************)
SchedTimes == (0 - 1)..MaxSchedTime

SchedPayloads == { <<b>> : b \in 1..2 }

SchedOnly == UNCHANGED <<uuid, tree, engine, reader, capture,
                         control, metrics, ring_buffer_storage, written,
                         observed, render, statics, hist>>

\* The slot an Add that succeeds on S takes.
Born(S, ret) ==
    IF ret THEN [n |-> born.n + 1, of |-> [born.of EXCEPT ![AllocateSlot(S)] =
                                              born.n + 1]]
    ELSE born

DoAdd ==
    \E time \in SchedTimes, data \in SchedPayloads :
        LET res == SchedulerAdd(g_scheduler, TRUE, time, data, Len(data))
        IN  /\ g_scheduler.mStabilityCounter < MaxAdds
            /\ g_scheduler' = res.S
            /\ pending' = pending
            /\ born' = Born(g_scheduler, res.ret)
            /\ last' = [op |-> "Add", ret |-> res.ret, time |-> time,
                        data |-> data,
                        afterFull |->
                            IF ~res.ret /\ Len(g_scheduler.mQueue)
                                              >= MAX_SCHEDULED_BUNDLES
                            THEN 10
                            ELSE IF last.op = "ReleaseSlot"
                                    /\ last.afterFull \in {2, 12}
                            THEN last.afterFull + 1 ELSE 0]
            /\ SchedOnly

DoRemove ==
    LET res == SchedulerRemove(g_scheduler)
    IN  /\ g_scheduler' = res.S
        /\ pending' = IF res.slot >= 0 THEN pending \cup {res.slot} ELSE pending
        /\ born' = born
        /\ last' = [op |-> "Remove", slot |-> res.slot,
                    afterFull |->
                        IF last.op = "Add" /\ last.afterFull = 10 THEN 11
                        ELSE IF Len(g_scheduler.mQueue) >= MAX_SCHEDULED_BUNDLES
                        THEN 1 ELSE 0]
        /\ SchedOnly

DoRelease ==
    \E slot \in pending :
        /\ g_scheduler' = ReleaseSlot(g_scheduler, slot)
        /\ pending' = pending \ {slot}
        /\ born' = born
        /\ last' = [op |-> "ReleaseSlot", slot |-> slot,
                    afterFull |-> IF last.op = "Remove"
                                     /\ last.afterFull \in {1, 11}
                                     /\ last.slot = slot
                                  THEN last.afterFull + 1 ELSE 0]
        /\ SchedOnly

DoClear ==
    /\ g_scheduler' = SchedulerClear(g_scheduler)
    /\ pending' = {}
    /\ born' = born
    /\ last' = [op |-> "Clear", afterFull |-> 0]
    /\ SchedOnly

NextSched == DoAdd \/ DoRemove \/ DoRelease \/ DoClear
SpecSched == InitRings /\ [][NextSched]_vars

(***************************************************************************)
(* The render entrypoint process_audio (audio_processor.cpp:443), as the   *)
(* steps at which the control thread can observe it: the start of the     *)
(* call, each iteration of the inbound drain, each Remove of the dispatch  *)
(* loop, and each Perform with its ReleaseSlot.  The engine (g_world) has   *)
(* been constructed; what Perform does inside the engine is not modelled,  *)
(* nor are the buffer-usage gauges and the process tick.                   *)
(***************************************************************************)
\* MAX_MESSAGE_SIZE = IN_BUFFER_SIZE - sizeof(Message)
MAX_MESSAGE_SIZE == IN_BUFFER_SIZE - HEADER_SIZE

\* (int32_t) of a uint32 sequence number
ToInt32(u) == IF u % SEQ_MOD >= Pow2(SeqBits - 1) THEN (u % SEQ_MOD) - SEQ_MOD
              ELSE u % SEQ_MOD

\* (int64_t) of a uint64 time tag
ToInt64(u) == IF u >= Pow2(TimeBits - 1) THEN u - Pow2(TimeBits) ELSE u

\* the text of a log line: what the formatter leaves is its newline
DebugLine == <<10>>

\* What process_audio works on.
RenderState == [c |-> control, m |-> metrics, s |-> ring_buffer_storage,
                g |-> g_scheduler, st |-> statics]

\* worklet_debug: one framed line into the debug ring, no metrics bound.
\* The set of states it can leave (the header's _padding is indeterminate).
worklet_debug(W) ==
    { LET res == ring_buffer_write([c |-> W.c, m |-> W.m, s |-> W.s], "DBG",
                                   DebugLine, FALSE, hu, pu)
      IN  [W EXCEPT !.c = res.c, !.m = res.m, !.s = res.s] :
      hu \in UninitWord, pu \in UninitWord }

\* a depth metric that only tracks the peak
update_scheduler_depth_metric_peak_only(m, depth) ==
    [m EXCEPT !.scheduler_queue_max = IF depth > @ THEN depth ELSE @]

update_scheduler_depth_metric(m, depth) ==
    [m EXCEPT !.scheduler_queue_depth = depth,
              !.scheduler_queue_max = IF depth > @ THEN depth ELSE @]

increment_scheduler_drop_metric(m) ==
    [m EXCEPT !.scheduler_queue_dropped = @ + 1]

is_bundle(data, size) ==
    IF size < BUNDLE_HEADER_SIZE THEN FALSE ELSE data[1] = BUNDLE_MARKER

extract_timetag(bundle_data) == bundle_data[2]

\* schedule_bundle: the set of [W |-> state after, ret |-> return value]
schedule_bundle(W, ntp_time, data, size) ==
    IF size > SCHEDULER_SLOT_SIZE
    THEN { [W |-> w, ret |-> FALSE] : w \in worklet_debug(W) }
    ELSE LET a == SchedulerAdd(W.g, TRUE, ntp_time, data, size)
         IN  IF ~a.ret
             THEN { [W |-> [w EXCEPT !.m = update_scheduler_depth_metric(
                                       increment_scheduler_drop_metric(@),
                                       mQueueSize(w.g))],
                     ret |-> FALSE] : w \in worklet_debug(W) }
             ELSE { [W |-> [W EXCEPT !.g = a.S,
                                     !.m = update_scheduler_depth_metric(
                                               @, mQueueSize(a.S))],
                     ret |-> TRUE] }

\* What one pass through the drain loop leaves: the state, which branch it
\* took, whether the loop goes on, and what it adds to messages_this_frame.
Out(W, kind, cont, counted) ==
    [W |-> W, kind |-> kind, cont |-> cont, counted |-> counted]

\* gap detection on a validated header
GapDetect(W, sequence) ==
    LET half == Pow2(SeqBits - 1)
        expected == (W.st.last_in_sequence + 1) % half
        gap_size == (ToInt32(sequence) - expected) % half
        counted == [W EXCEPT !.m.messages_sequence_gaps = @ + gap_size]
        noted == IF W.st.last_in_sequence >= 0
                    /\ ToInt32(sequence) # expected
                    /\ gap_size > 0 /\ gap_size < GAP_LIMIT
                 THEN IF W.st.gap_log_count < LOG_LIMIT
                      THEN { [w EXCEPT !.st.gap_log_count = @ + 1] :
                             w \in worklet_debug(counted) }
                      ELSE { counted }
                 ELSE { W }
    IN  { [w EXCEPT !.st.last_in_sequence = ToInt32(sequence)] : w \in noted }

\* a rewind that goes one frame too far back
RewindSequence_TwoBack(sequence) ==
    IF sequence > 1 THEN ToInt32(sequence - 2) ELSE -1

\* what backpressure leaves in last_in_sequence for the frame it held back
RewindSequence(sequence) ==
    IF sequence > 0 THEN ToInt32(sequence - 1) ELSE -1

\* classification and dispatch of a validated frame
Classify(W, in_tail, length, sequence) ==
    LET payload_size == length - HEADER_SIZE
        osc_buffer == ReadCells(W.s["IN"], (in_tail + HEADER_SIZE) % IN_BUFFER_SIZE,
                                payload_size, IN_BUFFER_SIZE)
        timetag == extract_timetag(osc_buffer)
        future == is_bundle(osc_buffer, payload_size) /\ ~(timetag = 0 \/ timetag = 1)
        consume(w) == [w EXCEPT !.c.in_tail = (in_tail + length) % IN_BUFFER_SIZE,
                                !.m.messages_processed = @ + 1]
    IN  IF future /\ IsFull(W.g)
        THEN { Out([w EXCEPT !.st.last_in_sequence = RewindSequence(sequence)],
                   "backpressure", FALSE, 0) : w \in worklet_debug(W) }
        ELSE IF future
        THEN UNION { { Out(consume(w), IF r.ret THEN "scheduled" ELSE "not_scheduled",
                           TRUE, 1) :
                       w \in IF r.ret THEN { r.W } ELSE worklet_debug(r.W) } :
                     r \in schedule_bundle(W, ToInt64(timetag), osc_buffer,
                                           payload_size) }
        ELSE { Out(consume(W),
                   IF is_bundle(osc_buffer, payload_size) THEN "bundle"
                   ELSE "message",
                   TRUE, 1) }

\* a drain loop that goes on for as long as the ring has frames
DrainContinues_NoCap(in_head, in_tail, messages_this_frame) == in_head # in_tail

\* the drain loop's condition
DrainContinues(in_head, in_tail, messages_this_frame) ==
    in_head # in_tail /\ messages_this_frame < MAX_MESSAGES_PER_FRAME

\* a validation that lets a padding marker through
InvalidMagic_PaddingPasses(magic) ==
    magic # MESSAGE_MAGIC /\ magic # PADDING_MAGIC

\* the magic check of the inbound reader
InvalidMagic(magic) == magic # MESSAGE_MAGIC

\* one evaluation of the drain loop's condition and, if it holds, its body
DrainStep(W, in_head, messages_this_frame) ==
    LET in_tail == W.c.in_tail
        header == ReadCells(W.s["IN"], in_tail, HEADER_SIZE, IN_BUFFER_SIZE)
        magic == header[1]
        length == header[2]
        sequence == header[3]
        skip(w, n) == [w EXCEPT !.c.in_tail = (in_tail + n) % IN_BUFFER_SIZE,
                                !.m.messages_dropped = @ + 1]
    IN  IF ~DrainContinues(in_head, in_tail, messages_this_frame)
        THEN { Out(W, "exit", FALSE, 0) }
        ELSE IF InvalidMagic(magic)
        THEN { Out(skip(w, 1), "bad_magic", TRUE, 0) :
               w \in IF W.st.corruption_count < LOG_LIMIT
                     THEN { [v EXCEPT !.st.corruption_count = @ + 1] :
                            v \in worklet_debug(W) }
                     ELSE { W } }
        ELSE IF length > MAX_MESSAGE_SIZE + HEADER_SIZE
        THEN { Out([skip(W, length) EXCEPT !.c.status_flags =
                                        fetch_or(@, "STATUS_FRAGMENTED_MSG")],
                   "fragmented", TRUE, 0) }
        ELSE IF length < HEADER_SIZE   \* payload_size wraps below zero
        THEN { Out(skip(W, length), "bad_size", TRUE, 0) }
        ELSE UNION { Classify(w, in_tail, length, sequence) :
                     w \in GapDetect(W, sequence) }

\* The control thread's writer of the inbound ring: frames may straddle the
\* wrap, no padding markers.
InTimetags == {1, 2, 3, Pow2(TimeBits) - 2}

InPayloads == { <<1>> } \cup { <<BUNDLE_MARKER, t>> : t \in InTimetags }

MemCpyWrap(mem, at, cells, size) ==
    [i \in DOMAIN mem |->
        IF (i - at) % size < Len(cells) THEN cells[((i - at) % size) + 1]
        ELSE mem[i]]

InWriteOf(payloads) ==
    \E data \in payloads :
        LET length == HEADER_SIZE + Len(data)
            head == control.in_head
            frame == <<MESSAGE_MAGIC, length, control.in_sequence, 0>> \o data
        IN  /\ control.in_sequence < MaxInWrites
            /\ available_space(head, control.in_tail, IN_BUFFER_SIZE) >= length
            /\ ring_buffer_storage' =
                   [ring_buffer_storage EXCEPT !["IN"] =
                        MemCpyWrap(@, head, frame, IN_BUFFER_SIZE)]
            /\ control' = [control EXCEPT
                              !.in_head = (head + length) % IN_BUFFER_SIZE,
                              !.in_sequence = (@ + 1) % SEQ_MOD]
            /\ hist' = [hist EXCEPT !.in = Append(@, data)]
            /\ last' = [op |-> "in_write", data |-> data]
            /\ UNCHANGED <<uuid, tree, engine, reader, capture,
                           metrics, g_scheduler, pending, born, render, statics,
                           written, observed>>

InWrite == InWriteOf(InPayloads)

\* the payload of the frame at the inbound tail
TailPayload ==
    LET header == ReadCells(ring_buffer_storage["IN"], control.in_tail,
                            HEADER_SIZE, IN_BUFFER_SIZE)
    IN  IF header[2] >= HEADER_SIZE /\ header[2] <= IN_BUFFER_SIZE
        THEN ReadCells(ring_buffer_storage["IN"],
                       (control.in_tail + HEADER_SIZE) % IN_BUFFER_SIZE,
                       header[2] - HEADER_SIZE, IN_BUFFER_SIZE)
        ELSE <<>>

\* the drain loop's bound on its own passes: the model stops counting there
IterCap == Capacity("IN") + MAX_MESSAGES_PER_FRAME + 1

\* the times at which the model's render calls begin
Nows == {0, MaxNow}

\* process_audio up to the drain loop; without initialised memory or
\* without an engine the call does nothing to the rings or the scheduler
process_audio_begin_at(nows) ==
    \E now \in nows :
        /\ render.at = "idle"
        /\ IF statics.memory_initialized /\ statics.g_world
           THEN /\ render' = [RenderIdle EXCEPT
                                 !.at = "drain",
                                 !.in_head = control.in_head,
                                 !.currentOscTime = ToInt64(now),
                                 !.mSampleOffset = render.mSampleOffset,
                                 !.mSubsampleOffset = render.mSubsampleOffset,
                                 !.bornAtBegin = born.n,
                                 !.avail = Len(hist.in) - Len(hist.consumed)]
                /\ last' = [op |-> "begin", now |-> ToInt64(now)]
           ELSE /\ render' = render
                /\ last' = [op |-> "no_op"]
        /\ UNCHANGED <<uuid, tree, engine, reader, capture,
                       control, metrics, ring_buffer_storage, g_scheduler,
                       pending, born, statics, hist, written, observed>>

process_audio_begin == process_audio_begin_at(Nows)

\* an engine run that comes before the bundles of the dispatch loop
AfterDrain_RunsEngine == <<"zero_bus", "buf_counter", "run">>

\* between the drain loop and the dispatch loop: the output buses are zeroed
\* and mBufCounter is incremented
AfterDrain == <<"zero_bus", "buf_counter">>

\* after the dispatch loop: World_Run, the three notification FIFOs, the
\* copy of the output buses to static_audio_bus
AfterDispatch == <<"run", "flush", "copy">>

\* one pass of the drain loop
process_audio_drain ==
    /\ render.at = "drain"
    /\ render.iterations < IterCap
    /\ \E o \in DrainStep(RenderState, render.in_head, render.messages_this_frame) :
          /\ control' = o.W.c
          /\ metrics' = o.W.m
          /\ ring_buffer_storage' = o.W.s
          /\ g_scheduler' = o.W.g
          /\ statics' = o.W.st
          /\ render' = IF o.cont
                       THEN [render EXCEPT !.messages_this_frame = @ + o.counted,
                                           !.iterations = @ + 1,
                                           !.phases = IF o.counted = 1
                                                      THEN Append(@, o.kind)
                                                      ELSE @]
                       ELSE [render EXCEPT !.at = "dispatch",
                                           !.phases = @ \o AfterDrain]
          /\ hist' = [hist EXCEPT
                         !.sched = IF o.kind = "scheduled"
                                   THEN Append(@, TailPayload) ELSE @,
                         !.consumed = IF o.counted = 1
                                      THEN Append(@, [data |-> TailPayload,
                                                      kind |-> o.kind])
                                      ELSE @,
                         !.blocked = IF o.kind = "backpressure"
                                     THEN @ \cup {Len(hist.consumed) + 1}
                                     ELSE @]
          /\ born' = Born(g_scheduler, o.kind = "scheduled")
          /\ last' = [op |-> "drain", kind |-> o.kind,
                      reread |-> o.kind # "exit"
                                 /\ (Len(hist.consumed) + 1) \in hist.blocked]
    /\ UNCHANGED <<uuid, tree, engine, reader, capture, pending, written, observed>>

\* the dispatch loop's condition: a bundle stamped nextOscTime is still due
Due_Strict(schedTime, nextOscTime) == schedTime < nextOscTime

Due(schedTime, nextOscTime) == schedTime <= nextOscTime

\* int64 arithmetic of the time stamps: the result in two's complement
Int64(x) == ToInt64(x % Pow2(TimeBits))

\* the range of int (scaled with the time stamps)
INT_MAX == Pow2(TimeBits - 1) - 1
INT_MIN == 0 - Pow2(TimeBits - 1)

\* (int) of a float: the value when int can hold it; otherwise the
\* conversion is undefined, and builds leave INT_MIN or the saturated value
IntCast(x) ==
    IF x > INT_MAX THEN {INT_MIN, INT_MAX}
    ELSE IF x < INT_MIN THEN {INT_MIN}
    ELSE {x}

\* diffTime = (schedTime - currentOscTime) * g_osc_to_samples + 0.5 in units
\* of 1 / (2 * osc_increment) samples; g_osc_to_samples is
\* BUF_LENGTH / g_osc_increment once init_memory has set both, 0.0 before
DiffTime(schedTime, currentOscTime, osc_increment) ==
    2 * Int64(schedTime - currentOscTime) * BUF_LENGTH + osc_increment

\* mSampleOffset: (int) floor(diffTime), clamped to the block; the set of
\* values the store can leave
SampleOffset(schedTime, currentOscTime, osc_increment) ==
    LET diffTimeFloor ==
            IF osc_increment = 0 THEN 0
            ELSE DiffTime(schedTime, currentOscTime, osc_increment)
                     \div (2 * osc_increment)
    IN  { IF i < 0 THEN 0
          ELSE IF i >= BUF_LENGTH THEN BUF_LENGTH - 1
          ELSE i : i \in IntCast(diffTimeFloor) }

\* mSubsampleOffset: diffTime - floor(diffTime), in the same units
SubsampleOffset(schedTime, currentOscTime, osc_increment) ==
    IF osc_increment = 0 THEN 0
    ELSE DiffTime(schedTime, currentOscTime, osc_increment)
             % (2 * osc_increment)

\* an end of the dispatch loop that leaves the offsets of the last bundle
ResetOffset_Keep(offset) == offset

\* mSampleOffset = 0, mSubsampleOffset = 0.0 after the dispatch loop
ResetOffset(offset) == 0

\* process_audio's locals when the call ends; the engine keeps its offsets
RenderEnd ==
    [RenderIdle EXCEPT
        !.mSampleOffset = ResetOffset(render.mSampleOffset),
        !.mSubsampleOffset = ResetOffset(render.mSubsampleOffset)]

\* the audio capture at the end of the call: the states it can leave, as
\* [W |-> render state, cap |-> capture header]
AudioCapture(W, cap) ==
    IF cap.enabled = 0 THEN { [W |-> W, cap |-> cap] }
    ELSE IF cap.head + QUANTUM_SIZE <= AUDIO_CAPTURE_FRAMES
    THEN { [W |-> W, cap |-> [cap EXCEPT !.head = @ + QUANTUM_SIZE]] }
    ELSE IF ~W.st.logged_buffer_full
    THEN { [W |-> [w EXCEPT !.st.logged_buffer_full = TRUE], cap |-> cap] :
           w \in worklet_debug(W) }
    ELSE { [W |-> W, cap |-> cap] }

\* the dispatch loop's condition, the sample offset, Remove and the depth
\* metric; when the loop ends the engine has run, the capture is taken and
\* the call ends
process_audio_dispatch ==
    /\ render.at = "dispatch"
    /\ LET schedTime == NextTime(g_scheduler)
           nextOscTime == Int64(render.currentOscTime
                                    + statics.osc_increment)
           res == SchedulerRemove(g_scheduler)
       IN  IF Due(schedTime, nextOscTime)
           THEN /\ g_scheduler' = res.S
                /\ metrics' = update_scheduler_depth_metric(metrics,
                                                            mQueueSize(res.S))
                /\ \E offset \in SampleOffset(schedTime, render.currentOscTime,
                                               statics.osc_increment) :
                      render' = IF res.slot < 0 THEN RenderEnd
                                ELSE [render EXCEPT
                                         !.at = "perform",
                                         !.schedTime = schedTime,
                                         !.bundle = res.slot,
                                         !.dispatches = @ + 1,
                                         !.mSampleOffset = offset,
                                         !.mSubsampleOffset =
                                             SubsampleOffset(
                                                 schedTime,
                                                 render.currentOscTime,
                                                 statics.osc_increment)]
                /\ hist' = [hist EXCEPT !.removed = TRUE]
                /\ last' = [op |-> "dispatch", slot |-> res.slot]
                /\ UNCHANGED <<control, ring_buffer_storage, statics, capture>>
           ELSE /\ render' = RenderEnd
                /\ last' = [op |-> "end", now |-> render.currentOscTime,
                            offset |-> render.mSampleOffset,
                            phases |-> render.phases \o AfterDispatch,
                            bornAtBegin |-> render.bornAtBegin,
                            avail |-> render.avail,
                            drained |-> render.messages_this_frame]
                /\ \E o \in AudioCapture(RenderState, capture) :
                      /\ control' = o.W.c
                      /\ ring_buffer_storage' = o.W.s
                      /\ statics' = o.W.st
                      /\ capture' = o.cap
                /\ UNCHANGED <<metrics, g_scheduler, hist>>
    /\ UNCHANGED <<uuid, tree, engine, reader, pending, born, written, observed>>

\* a peak that is overwritten instead of raised
AtomicMax_Store(current, v) == v

\* the compare-and-swap loop that raises scheduler_max_late_ms
AtomicMax(current, v) == IF v > current THEN v ELSE current

\* lateness accounting, Perform and ReleaseSlot of the removed bundle
process_audio_perform ==
    /\ render.at = "perform"
    /\ LET time_diff == Int64(render.schedTime - render.currentOscTime)
           late_ms == IF 0 - time_diff > LATE_MS_CAP THEN LATE_MS_CAP
                      ELSE 0 - time_diff
           late_count == statics.late_count + 1
           W == [RenderState EXCEPT
                    !.st.late_count = late_count,
                    !.m.scheduler_lates = @ + 1,
                    !.m.scheduler_max_late_ms = AtomicMax(@, late_ms),
                    !.m.scheduler_last_late_ms = late_ms]
       IN  \E w \in IF time_diff < 0
                    THEN IF late_count = 1 \/ late_count % LATE_LOG_EVERY = 0
                         THEN worklet_debug(W) ELSE { W }
                    ELSE { RenderState } :
              /\ control' = w.c
              /\ metrics' = w.m
              /\ ring_buffer_storage' = w.s
              /\ statics' = w.st
    /\ g_scheduler' = ReleaseSlot(g_scheduler, render.bundle)
    /\ render' = [render EXCEPT
                     !.at = "dispatch", !.bundle = -1, !.schedTime = 0,
                     !.phases = Append(@, "perform"),
                     !.performed = Append(@, [id |-> born.of[render.bundle],
                                              time |-> render.schedTime,
                                              offset |-> render.mSampleOffset])]
    /\ last' = [op |-> "perform", slot |-> render.bundle,
                data |-> g_scheduler.mPool[render.bundle].mData,
                time |-> render.schedTime, now |-> render.currentOscTime,
                offset |-> render.mSampleOffset,
                id |-> born.of[render.bundle],
                bornAtBegin |-> render.bornAtBegin]
    /\ UNCHANGED <<uuid, tree, engine, reader, capture,
                   pending, born, hist, written, observed>>

\* clear_scheduler without the reset of the gap detector
clear_scheduler_KeepSequence ==
    /\ render.at = "idle"
    /\ g_scheduler' = SchedulerClear(g_scheduler)
    /\ metrics' = update_scheduler_depth_metric(metrics, 0)
    /\ statics' = statics
    /\ hist' = [hist EXCEPT !.cleared = TRUE, !.clearMark = born.n,
                            !.clearAt = Len(hist.consumed)]
    /\ last' = [op |-> "clear_scheduler", size |-> mQueueSize(g_scheduler)]
    /\ UNCHANGED <<uuid, tree, engine, reader, capture,
                   control, ring_buffer_storage, pending, born, render,
                   written, observed>>

\* clear_scheduler, called by the worklet between render calls
clear_scheduler ==
    /\ render.at = "idle"
    /\ g_scheduler' = SchedulerClear(g_scheduler)
    /\ metrics' = update_scheduler_depth_metric(metrics, 0)
    /\ statics' = [statics EXCEPT !.last_in_sequence = -1]
    /\ hist' = [hist EXCEPT !.cleared = TRUE, !.clearMark = born.n,
                            !.clearAt = Len(hist.consumed)]
    /\ last' = [op |-> "clear_scheduler", size |-> mQueueSize(g_scheduler)]
    /\ UNCHANGED <<uuid, tree, engine, reader, capture,
                   control, ring_buffer_storage, pending, born, render,
                   written, observed>>

NextRender ==
    \/ InWrite
    \/ process_audio_begin
    \/ process_audio_drain
    \/ process_audio_dispatch
    \/ process_audio_perform
    \/ clear_scheduler

SpecRender == InitRings /\ [][NextRender]_vars

\* a future bundle one cell larger than a scheduler slot's payload limit
OversizeBundle ==
    <<BUNDLE_MARKER, 2>> \o [i \in 1..(SCHEDULER_SLOT_SIZE - 1) |-> 0]

\* What a producer that does not keep to the frame format can leave in the
\* inbound ring: well-formed frames (a message, a future bundle, an
\* oversize future bundle) and frames whose header has a wrong magic or a
\* length of zero, below the header size, or above the capacity.
CorruptFrames(sequence) ==
    { <<MESSAGE_MAGIC, HEADER_SIZE + Len(d), sequence, 0>> \o d :
        d \in { <<1>>, <<BUNDLE_MARKER, 2>>, OversizeBundle } }
    \cup { <<0, HEADER_SIZE + 1, sequence, 0, 1>>,
           <<MESSAGE_MAGIC, 0, sequence, 0, 1>>,
           <<MESSAGE_MAGIC, HEADER_SIZE - 1, sequence, 0, 1>>,
           <<MESSAGE_MAGIC, IN_BUFFER_SIZE + 1, sequence, 0, 1>> }

InWriteCorrupt ==
    \E frame \in CorruptFrames(control.in_sequence) :
        LET head == control.in_head
        IN  /\ control.in_sequence < MaxCorruptWrites
            /\ available_space(head, control.in_tail, IN_BUFFER_SIZE)
                   >= Len(frame)
            /\ ring_buffer_storage' =
                   [ring_buffer_storage EXCEPT !["IN"] =
                        MemCpyWrap(@, head, frame, IN_BUFFER_SIZE)]
            /\ control' = [control EXCEPT
                              !.in_head = (head + Len(frame)) % IN_BUFFER_SIZE,
                              !.in_sequence = (@ + 1) % SEQ_MOD]
            /\ hist' = [hist EXCEPT
                           !.in = Append(@, SubSeq(frame, HEADER_SIZE + 1,
                                                   Len(frame)))]
            /\ last' = [op |-> "in_write", frame |-> frame]
            /\ UNCHANGED <<uuid, tree, engine, reader, capture,
                           metrics, g_scheduler, pending, born, render, statics,
                           written, observed>>

NextCorrupt ==
    \/ InWriteCorrupt
    \/ process_audio_begin
    \/ process_audio_drain
    \/ process_audio_dispatch
    \/ process_audio_perform
    \/ clear_scheduler

\* process_audio over an inbound ring that holds arbitrary frames
SpecCorrupt == InitRings /\ [][NextCorrupt]_vars

(***************************************************************************)
(* init_memory (audio_processor.cpp:248-437) and the render entrypoint     *)
(* from the state before it has run.                                       *)
(***************************************************************************)
\* n log lines, one after the other
RECURSIVE worklet_debug_lines(_, _)
worklet_debug_lines(W, n) ==
    IF n = 0 THEN { W }
    ELSE UNION { worklet_debug_lines(w, n - 1) : w \in worklet_debug(W) }

\* the lines of the boot banner
BannerLines == 5

\* How the engine's construction and start-up can end: World_New throws,
\* World_New returns null, a bus-touched array is missing, World_Start
\* leaves no wire buffer space, or all is well.
InitOutcomes == {"new_threw", "new_null", "bus_null", "wirebuf_null", "ok"}

InitFailures == InitOutcomes \ {"ok"}

\* the state before init_memory
InitPre ==
    /\ tree = [NodeTree_InitIndices EXCEPT
                  !.entries = [i \in MirrorSlots |->
                                  [id |-> 0, parent_id |-> 0, is_group |-> 0,
                                   prev_id |-> 0, next_id |-> 0,
                                   head_id |-> 0]],
                  !.nt_free_head = -1,
                  !.nt_free_next = [i \in MirrorSlots |-> 0],
                  !.nt_hash = [i \in 0 .. NT_HASH_CAPACITY - 1 |->
                                  [key |-> 0, value |-> 0]]]
    /\ engine = InitEngine
    /\ reader = InitReader
    /\ capture = InitCapture
    /\ uuid = InitUuid
    /\ control = InitControl
    /\ metrics = InitMetrics
    /\ ring_buffer_storage = InitStorage
    /\ written = [r \in Rings |-> <<>>]
    /\ observed = [r \in Rings |-> -1]
    /\ g_scheduler = InitScheduler
    /\ pending = {}
    /\ born = [n |-> 0, of |-> [i \in Slots |-> 0]]
    /\ render = RenderIdle
    /\ statics = [InitStatics EXCEPT !.memory_initialized = FALSE,
                                     !.g_world = FALSE,
                                     !.osc_increment = 0]
    /\ hist = [in |-> <<>>, sched |-> <<>>, cleared |-> FALSE, removed |-> FALSE,
               consumed |-> <<>>, blocked |-> {}, clearMark |-> 0,
               clearAt |-> -1, init |-> "none"]
    /\ last = [op |-> "init"]

init_memory ==
    \E outcome \in InitOutcomes :
        LET zeroed == [RenderState EXCEPT
                          !.c = InitControl, !.m = InitMetrics,
                          !.st.memory_initialized = TRUE,
                          !.st.g_world = outcome \notin {"new_threw", "new_null"}]
            failed(w) == [w EXCEPT !.c.status_flags =
                                       fetch_or(@, "STATUS_WASM_ERROR")]
            started == [zeroed EXCEPT
                           !.st.osc_increment = g_osc_increment,
                           !.g = SchedulerClear(@),
                           !.m = update_scheduler_depth_metric(@, 0)]
        IN  /\ ~statics.memory_initialized
            /\ render.at = "idle"
            /\ \E w \in IF outcome = "ok"
                          THEN worklet_debug_lines(started, BannerLines)
                          ELSE { failed(v) : v \in worklet_debug(zeroed) } :
                  /\ control' = w.c
                  /\ metrics' = w.m
                  /\ ring_buffer_storage' = w.s
                  /\ g_scheduler' = w.g
                  /\ statics' = w.st
            /\ tree' = IF outcome = "ok" THEN InitTree
                       ELSE NodeTree_InitIndices
            /\ capture' = InitCapture
            /\ hist' = [hist EXCEPT !.init = outcome]
            /\ last' = [op |-> "init_memory", outcome |-> outcome]
            /\ UNCHANGED <<uuid, engine, reader, pending, born, render, written,
                           observed>>

NextInit ==
    \/ init_memory
    \/ statics.memory_initialized /\ InWriteCorrupt
    \/ process_audio_begin
    \/ process_audio_drain
    \/ process_audio_dispatch
    \/ process_audio_perform
    \/ clear_scheduler

SpecInit == InitPre /\ [][NextInit]_vars

\* a producer of messages and of future bundles, one of them larger than a
\* scheduler slot's payload limit
InWriteFuture ==
    InWriteOf({ <<1>>, OversizeBundle }
                  \cup { <<BUNDLE_MARKER, t>> : t \in {2, 3} })

NextRenderFair ==
    \/ InWriteFuture
    \/ process_audio_begin
    \/ process_audio_drain
    \/ process_audio_dispatch
    \/ process_audio_perform
    \/ clear_scheduler

\* a render call that begins at the latest time of the model
process_audio_begin_late ==
    process_audio_begin /\ render'.currentOscTime = MaxNow

\* The audio callback keeps being called and runs to its end, and time
\* advances: again and again a call begins late enough for every queued
\* bundle to be due.
SpecRenderFair ==
    /\ InitRings
    /\ [][NextRenderFair]_vars
    /\ WF_vars(process_audio_drain)
    /\ WF_vars(process_audio_dispatch)
    /\ WF_vars(process_audio_perform)
    /\ SF_vars(process_audio_begin_late)

(***************************************************************************)
(* Claims about the ring writer.                                           *)
(***************************************************************************)
WriteOps == {"osc_reply", "debug_raw"}

\* Free bytes of ring r as the contract computes them.
FreeBytes(r) ==
    (Capacity(r) - 1 - control[HeadField(r)] + control[TailField(r)])
        % Capacity(r)

\* C1: Frame integrity.  Every frame the consumer reads is, in length,
\* sequence and payload, the oldest frame the producer published and the
\* consumer has not read yet; and no published frame is lost: when the
\* consumer finds the ring empty every published frame has been read.
C1_FrameIntegrity ==
    /\ last.op = "read" => last.frame = last.expected
    /\ \A r \in {"OUT", "DBG"} :
          control[HeadField(r)] = control[TailField(r)] => written[r] = <<>>

\* C2: A ring_write that finds fewer free bytes than HEADER_SIZE +
\* payload_len returns false, sets BUFFER_FULL, adds exactly one to the drop
\* counter (metrics bound) and leaves head, tail and every ring byte alone.
C2_FullWriteRejected ==
    [][ \A r \in {"OUT"} :
          (last'.op \in WriteOps /\ last'.ring = r /\ FreeBytes(r) < last'.len)
          => /\ last'.ret = FALSE
             /\ "STATUS_BUFFER_FULL" \in control'.status_flags
             /\ metrics'.messages_dropped = metrics.messages_dropped + 1
             /\ control'[HeadField(r)] = control[HeadField(r)]
             /\ control'[TailField(r)] = control[TailField(r)]
             /\ ring_buffer_storage' = ring_buffer_storage ]_vars

\* C2 witness: a write was refused with exactly one byte too few.
C2_Witness ==
    /\ last.op = "osc_reply"
    /\ last.ret = FALSE
    /\ (Capacity("OUT") - 1 - last.head + last.tail) % Capacity("OUT")
           = last.len - 1
    /\ metrics.messages_dropped = 1

\* C3 as claimed: a frame of exactly `capacity` bytes is accepted when the
\* ring is empty and refused when it is not.
C3_ExactFillAsClaimed ==
    (last.op \in WriteOps /\ last.len = Capacity(last.ring))
        => (last.ret = (last.head = last.tail))

\* C3 (amended): a frame of exactly `capacity` bytes is always refused,
\* empty ring or not, because one byte of the ring is kept in reserve.
C3_ExactFillRefused ==
    (last.op \in WriteOps /\ last.len = Capacity(last.ring))
        => (/\ last.ret = FALSE
            /\ control[HeadField(last.ring)] = last.head)

\* C3 witness: the exactly-filling frame was offered to an empty ring.
C3_Witness ==
    /\ last.op = "osc_reply"
    /\ last.len = Capacity("OUT")
    /\ last.head = last.tail
    /\ last.ret = FALSE

\* C4: No loss without count.  Every frame a ring write drops because the
\* ring is full adds exactly one to messages_dropped, on every ring.
C4_DropCounted ==
    [][ (last'.op \in WriteOps /\ last'.ret = FALSE)
          => metrics'.messages_dropped = metrics.messages_dropped + 1 ]_vars

\* C5: Sequence contiguity.  Two successive valid frames the consumer of a
\* ring observes carry sequence numbers s1 and s2 = (s1 + 1) mod 2^31
\* (scaled: 2^(SeqBits-1)), whatever writes failed in between.
C5_SequenceContiguity ==
    [][ \A r \in {"OUT", "DBG"} :
          (last'.op = "read" /\ last'.ring = r
             /\ last'.frame = last'.expected /\ observed[r] >= 0)
          => last'.frame.seq = (observed[r] + 1) % Pow2(SeqBits - 1) ]_vars

(***************************************************************************)
(* Claims about the bundle scheduler.                                      *)
(***************************************************************************)
\* The key of the bundle in pool slot i, read from the pool.
KeyOf(S, i) == <<S.mPool[i].mTime, S.mPool[i].mStabilityCount>>

KeyLeq(k1, k2) == k1[1] < k2[1] \/ (k1[1] = k2[1] /\ k1[2] <= k2[2])

QueuedSlots(S) == { S.mQueue[i].poolIndex : i \in 1..Len(S.mQueue) }

\* C6: Scheduler ordering.  next_time() is the smallest time tag queued, or
\* infinity when nothing is queued; remove() returns the queued bundle with
\* the smallest (time_tag, stability); removes with no add in between come
\* out in non-decreasing key order.
C6_RemoveSmallest ==
    /\ [](LET q == QueuedSlots(g_scheduler)
          IN  IF q = {} THEN NextTime(g_scheduler) = INT64_MAX
              ELSE /\ \E i \in q : NextTime(g_scheduler) = g_scheduler.mPool[i].mTime
                   /\ \A i \in q : NextTime(g_scheduler) <= g_scheduler.mPool[i].mTime)
    /\ [][ (last'.op = "Remove" /\ Len(g_scheduler.mQueue) > 0)
            => /\ last'.slot \in QueuedSlots(g_scheduler)
               /\ \A i \in QueuedSlots(g_scheduler) :
                     KeyLeq(KeyOf(g_scheduler, last'.slot), KeyOf(g_scheduler, i))
               /\ (last.op = "Remove" /\ last.slot >= 0)
                     => KeyLeq(KeyOf(g_scheduler, last.slot),
                               KeyOf(g_scheduler, last'.slot)) ]_vars

\* C6 witness: remove returned a bundle that was added after a bundle with a
\* later time tag which is still queued.
C6_Witness ==
    /\ last.op = "Remove"
    /\ last.slot >= 0
    /\ \E i \in QueuedSlots(g_scheduler) :
          /\ g_scheduler.mPool[i].mTime > g_scheduler.mPool[last.slot].mTime
          /\ born.of[i] < born.of[last.slot]

\* C7: FIFO tie-break.  When remove returns a bundle, no bundle still queued
\* with the same time tag was added before it.
C7_FifoTieBreak ==
    (last.op = "Remove" /\ last.slot >= 0)
        => \A i \in QueuedSlots(g_scheduler) :
              g_scheduler.mPool[i].mTime = g_scheduler.mPool[last.slot].mTime
                  => born.of[i] > born.of[last.slot]

\* C7 witness: remove returned the older of two bundles with one time tag,
\* after earlier adds had used up stability numbers.
C7_Witness ==
    /\ last.op = "Remove"
    /\ last.slot >= 0
    /\ \E i \in QueuedSlots(g_scheduler) :
          g_scheduler.mPool[i].mTime = g_scheduler.mPool[last.slot].mTime
    /\ g_scheduler.mPool[last.slot].mStabilityCount >= 2

\* C9: Scheduler at capacity.  With `capacity` bundles queued add returns
\* false and changes neither queue, nor pool, nor stability counter; after
\* one remove and the release of the removed bundle the next add succeeds.
C9_FullThenFree ==
    [][ last'.op = "Add"
          => /\ Len(g_scheduler.mQueue) >= MAX_SCHEDULED_BUNDLES
                  => (last'.ret = FALSE /\ g_scheduler' = g_scheduler)
             /\ (last.op = "ReleaseSlot" /\ last.afterFull \in {2, 12})
                  => last'.ret = TRUE ]_vars

\* C9 witness: an add was refused at capacity, one bundle was removed and
\* released, and the next add succeeded.
C9_Witness ==
    /\ last.op = "Add"
    /\ last.ret = TRUE
    /\ last.afterFull = 13

(***************************************************************************)
(* Claims about the render call.                                           *)
(***************************************************************************)
InUseCount(S) == Cardinality({ i \in Slots : S.mPool[i].mInUse })

\* C8: Pool conservation.  At every point from an add to the matching
\* release, the window in which a removed bundle is being dispatched
\* included, scheduler_queue_depth equals the number of pool slots in use.
C8_DepthIsInUse ==
    metrics.scheduler_queue_depth = InUseCount(g_scheduler)

\* C8 (amended): scheduler_queue_depth equals the number of queued bundles;
\* the slots in use are the queued bundles plus, while a removed bundle is
\* being dispatched, that bundle's slot.
C8_DepthIsQueued ==
    /\ metrics.scheduler_queue_depth = mQueueSize(g_scheduler)
    /\ InUseCount(g_scheduler) =
           mQueueSize(g_scheduler) + (IF render.at = "perform" THEN 1 ELSE 0)
    /\ render.at = "perform" => g_scheduler.mPool[render.bundle].mInUse

\* C8 witness: a bundle has been removed and is being dispatched while
\* another is still queued.
C8_Witness ==
    /\ render.at = "perform"
    /\ mQueueSize(g_scheduler) >= 1
    /\ metrics.scheduler_queue_depth = 1
    /\ InUseCount(g_scheduler) = 2

IsFutureBundle(data) ==
    /\ Len(data) >= BUNDLE_HEADER_SIZE
    /\ data[1] = BUNDLE_MARKER
    /\ data[2] > 1

\* the drain is looking at a future bundle while the queue holds capacity
BlockedAtTail ==
    /\ render.at = "drain"
    /\ control.in_head # control.in_tail
    /\ ReadCells(ring_buffer_storage["IN"], control.in_tail, HEADER_SIZE,
                 IN_BUFFER_SIZE)[1] = MESSAGE_MAGIC
    /\ IsFutureBundle(TailPayload)
    /\ Len(g_scheduler.mQueue) >= MAX_SCHEDULED_BUNDLES

\* capacity + 1 future bundles were written, nothing else, and nothing has
\* been cleared or dispatched
OneTooMany ==
    /\ Len(hist.in) = MAX_SCHEDULED_BUNDLES + 1
    /\ \A i \in 1..Len(hist.in) : IsFutureBundle(hist.in[i])
    /\ ~hist.cleared
    /\ ~hist.removed

\* C10: Backpressure.  A drain pass that finds a future bundle at the tail
\* while the scheduler is full leaves in_tail, messages_processed, the drop
\* counters and the scheduler alone and ends the drain; the rest of the call
\* moves in_tail no further; and of capacity + 1 future bundles exactly the
\* first capacity are scheduled, messages_processed growing by capacity.
C10_Backpressure ==
    /\ [][ (BlockedAtTail /\ last'.op = "drain")
             => /\ control'.in_tail = control.in_tail
                /\ metrics'.messages_processed = metrics.messages_processed
                /\ metrics'.messages_dropped = metrics.messages_dropped
                /\ metrics'.scheduler_queue_dropped = metrics.scheduler_queue_dropped
                /\ g_scheduler' = g_scheduler
                /\ render'.at # "drain" ]_vars
    /\ [][ render.at \in {"dispatch", "perform"}
             => control'.in_tail = control.in_tail ]_vars
    /\ []((OneTooMany /\ last.op = "drain" /\ last.kind = "backpressure")
             => /\ hist.sched = SubSeq(hist.in, 1, MAX_SCHEDULED_BUNDLES)
                /\ mQueueSize(g_scheduler) = MAX_SCHEDULED_BUNDLES
                /\ metrics.messages_processed = MAX_SCHEDULED_BUNDLES
                /\ metrics.messages_dropped = 0
                /\ metrics.scheduler_queue_dropped = 0
                /\ TailPayload = hist.in[MAX_SCHEDULED_BUNDLES + 1])

\* C10 witness: capacity + 1 future bundles were written and the drain has
\* just backed off from the last of them.
C10_Witness ==
    /\ OneTooMany
    /\ last.op = "drain"
    /\ last.kind = "backpressure"
    /\ metrics.messages_processed = MAX_SCHEDULED_BUNDLES

\* The control thread's writer after purges of the inbound ring: the frames
\* it publishes carry sequence numbers that need not follow the last one the
\* reader saw.
\* the sequence numbers the purging writer resumes with
GapSequences == {0, 2, SEQ_MOD - 1}

GapPayloads == { <<1>>, <<BUNDLE_MARKER, 2>> }

InWriteAnySequence ==
    \E sequence \in GapSequences, data \in GapPayloads :
        LET head == control.in_head
            frame == <<MESSAGE_MAGIC, HEADER_SIZE + Len(data), sequence, 0>>
                         \o data
        IN  /\ Len(hist.in) < MaxCorruptWrites
            /\ available_space(head, control.in_tail, IN_BUFFER_SIZE)
                   >= Len(frame)
            /\ ring_buffer_storage' =
                   [ring_buffer_storage EXCEPT !["IN"] =
                        MemCpyWrap(@, head, frame, IN_BUFFER_SIZE)]
            /\ control' = [control EXCEPT
                              !.in_head = (head + Len(frame)) % IN_BUFFER_SIZE,
                              !.in_sequence = (sequence + 1) % SEQ_MOD]
            /\ hist' = [hist EXCEPT !.in = Append(@, data)]
            /\ last' = [op |-> "in_write", frame |-> frame]
            /\ UNCHANGED <<uuid, tree, engine, reader, capture,
                           metrics, g_scheduler, pending, born, render, statics,
                           written, observed>>

NextGap ==
    \/ InWriteAnySequence
    \/ process_audio_begin
    \/ process_audio_drain
    \/ process_audio_dispatch
    \/ process_audio_perform
    \/ clear_scheduler

SpecGap == InitRings /\ [][NextGap]_vars

(***************************************************************************)
(* The engine's node callbacks (Node_StateMsg: kNode_Go, kNode_End,        *)
(* kNode_Move).  The engine's nodes are the root group and its children,   *)
(* synths in sibling order.                                                *)
(***************************************************************************)
NodeIds == 1 .. MaxNodeId

Range(seq) == { seq[i] : i \in 1 .. Len(seq) }

IndexOf(seq, id) == CHOOSE i \in 1 .. Len(seq) : seq[i] = id

Place(children, id, pos) ==
    SubSeq(children, 1, pos - 1) \o <<id>> \o SubSeq(children, pos, Len(children))

Without(children, id) == SelectSeq(children, LAMBDA x : x # id)

\* the Node the engine hands to a callback
ChildNode(children, id) ==
    LET i == IndexOf(children, id)
    IN  [mID |-> id, mParent |-> RootId,
         mPrev |-> IF i > 1 THEN children[i - 1] ELSE -1,
         mNext |-> IF i < Len(children) THEN children[i + 1] ELSE -1,
         mIsGroup |-> FALSE, mHead |-> -1]

\* the node events the engine can raise: the callback, the node it passes
\* and the children after the event
NodeEvents ==
    { [kind |-> "NodeTree_Add", children |-> Place(engine.children, id, pos),
       inner |-> <<>>,
       node |-> ChildNode(Place(engine.children, id, pos), id)] :
        id \in NodeIds \ Range(engine.children),
        pos \in 1 .. Len(engine.children) + 1 }
    \cup
    { [kind |-> "NodeTree_Remove", children |-> Without(engine.children, id),
       inner |-> <<>>,
       node |-> ChildNode(engine.children, id)] :
        id \in Range(engine.children) }
    \cup
    { [kind |-> "NodeTree_Update",
       children |-> Place(Without(engine.children, id), id, pos),
       inner |-> <<>>,
       node |-> ChildNode(Place(Without(engine.children, id), id, pos), id)] :
        id \in Range(engine.children), pos \in 1 .. Len(engine.children) }

Plan(T, e) ==
    CASE e.kind = "NodeTree_Add" -> NodeTree_Add_Plan(T)
      [] e.kind = "NodeTree_Remove" -> NodeTree_Remove_Plan(T, e.node.mID)
      [] e.kind = "NodeTree_Update" -> NodeTree_Update_Plan(T, e.node)

\* the mirror states the program is in between callbacks, by version
Stable(T, stable) ==
    IF T.version > Len(stable)
    THEN Append(stable, [node_count |-> T.node_count, entries |-> T.entries])
    ELSE stable

\* the callback finds no free slot for its node
Overflows(plan) == plan = <<"AddDropped">>

\* NodeTree_Add on a full mirror logs one debug line
Logged(plan) ==
    IF plan = <<"AddDropped">> THEN worklet_debug(RenderState)
    ELSE { RenderState }

\* one whole callback
Callback(e) ==
        LET plan == Plan(tree, e)
        IN  /\ engine.plan = <<>>
            /\ engine.ops < MaxTreeOps
            /\ tree' = Stages(tree, plan, e.node, OldEntry(tree, e.node.mID))
            /\ engine' = [engine EXCEPT !.children = e.children,
                                        !.inner = e.inner,
                                        !.ops = @ + 1,
                                        !.node = e.node,
                                        !.overflowed = @ \/ Overflows(plan),
                                        !.stable = Stable(tree', @)]
            /\ \E w \in Logged(plan) :
                  /\ control' = w.c
                  /\ ring_buffer_storage' = w.s
            /\ last' = [op |-> e.kind, id |-> e.node.mID, plan |-> plan]
            /\ UNCHANGED <<uuid, reader, capture, metrics, g_scheduler, pending,
                           born, render, statics, hist, written, observed>>

Node_Go ==
    \E e \in NodeEvents : e.kind = "NodeTree_Add" /\ Callback(e)

Node_End ==
    \E e \in NodeEvents : e.kind = "NodeTree_Remove" /\ Callback(e)

Node_Move ==
    \E e \in NodeEvents : e.kind = "NodeTree_Update" /\ Callback(e)

NextTree == Node_Go \/ Node_End \/ Node_Move

SpecTree == InitRings /\ [][NextTree]_vars

\* The engine's nodes when one of the root's children is a group: the node
\* GroupId, with synths as its children (inner).  A group is freed after its
\* children.
GroupId == 1

\* the Node the engine hands to a callback, in a tree of two levels
EngineNode(children, inner, id) ==
    IF id \in Range(inner)
    THEN [ChildNode(inner, id) EXCEPT !.mParent = GroupId]
    ELSE [ChildNode(children, id) EXCEPT
             !.mIsGroup = (id = GroupId),
             !.mHead = IF id = GroupId /\ inner # <<>> THEN inner[1] ELSE -1]

\* an event that leaves the root's children c and the group's children g
NestedEvent(kind, c, g, id) ==
    [kind |-> kind, children |-> c, inner |-> g,
     node |-> EngineNode(c, g, id)]

NestedEvents ==
    LET c == engine.children
        g == engine.inner
        alive == Range(c) \cup Range(g)
        rest(id) == [c |-> Without(c, id), g |-> Without(g, id)]
    IN  { NestedEvent("NodeTree_Add", Place(c, id, pos), g, id) :
            id \in NodeIds \ alive, pos \in 1 .. Len(c) + 1 }
        \cup
        { NestedEvent("NodeTree_Add", c, Place(g, id, pos), id) :
            id \in { i \in NodeIds \ alive : i # GroupId /\ GroupId \in Range(c) },
            pos \in 1 .. Len(g) + 1 }
        \cup
        { [NestedEvent("NodeTree_Update", c, g, id) EXCEPT
              !.kind = "NodeTree_Remove",
              !.children = rest(id).c, !.inner = rest(id).g] :
            id \in { i \in alive : i = GroupId => g = <<>> } }
        \cup
        UNION { { NestedEvent("NodeTree_Update",
                              Place(rest(id).c, id, pos), rest(id).g, id) :
                    pos \in 1 .. Len(rest(id).c) + 1 } : id \in alive }
        \cup
        UNION { { NestedEvent("NodeTree_Update",
                              rest(id).c, Place(rest(id).g, id, pos), id) :
                    pos \in 1 .. Len(rest(id).g) + 1 } :
                id \in { i \in alive : i # GroupId /\ GroupId \in Range(c) } }

Nested_Go ==
    \E e \in NestedEvents : e.kind = "NodeTree_Add" /\ Callback(e)

Nested_End ==
    \E e \in NestedEvents : e.kind = "NodeTree_Remove" /\ Callback(e)

Nested_Move ==
    \E e \in NestedEvents : e.kind = "NodeTree_Update" /\ Callback(e)

NextNested == Nested_Go \/ Nested_End \/ Nested_Move

SpecNested == InitRings /\ [][NextNested]_vars

\* The hash index on its own: inserts of keys that are not in it, with a
\* slot no key has, while at most half of the buckets are taken, and removes
\* of any key.  The keys are three whose natural buckets are the first two
\* of the table and three whose natural buckets are the last two; the slot
\* is the lowest one no key has.
HashKeys ==
    (0 .. 2) \cup ((2 * NT_HASH_CAPACITY - 3) .. (2 * NT_HASH_CAPACITY - 1))

HashLoad(h) ==
    Cardinality({ i \in DOMAIN h : h[i].key # NT_HASH_EMPTY })

HashValues(h) ==
    { h[i].value : i \in { b \in DOMAIN h : h[b].key # NT_HASH_EMPTY } }

HashInsert ==
    \E key \in HashKeys, value \in MirrorSlots \ HashValues(tree.nt_hash) :
        /\ nt_hash_find(tree.nt_hash, key) = -1
        /\ HashLoad(tree.nt_hash) < NT_HASH_CAPACITY \div 2
        /\ \A v \in MirrorSlots \ HashValues(tree.nt_hash) : value <= v
        /\ tree' = [tree EXCEPT !.nt_hash = nt_hash_insert(@, key, value)]
        /\ last' = [op |-> "nt_hash_insert", key |-> key]
        /\ UNCHANGED <<uuid, engine, reader, capture, control, metrics,
                       ring_buffer_storage, g_scheduler, pending, born,
                       render, statics, hist, written, observed>>

HashRemove ==
    \E key \in HashKeys :
        /\ tree' = [tree EXCEPT !.nt_hash = nt_hash_remove(@, key)]
        /\ last' = [op |-> "nt_hash_remove", key |-> key,
                    wrapped |->
                        /\ tree.nt_hash[0].key # NT_HASH_EMPTY
                        /\ tree'.nt_hash[NT_HASH_CAPACITY - 1].key
                               = tree.nt_hash[0].key]
        /\ UNCHANGED <<uuid, engine, reader, capture, control, metrics,
                       ring_buffer_storage, g_scheduler, pending, born,
                       render, statics, hist, written, observed>>

NextHash == HashInsert \/ HashRemove

SpecHash == InitRings /\ [][NextHash]_vars

(***************************************************************************)
(* The render thread rewriting messages: an outbound message with one UUID *)
(* argument, a node-lifecycle reply with a node id as its first argument,  *)
(* and the forward lookup of the diagnostics interface.                    *)
(***************************************************************************)
MaxUuidIds == 4

\* the UUIDs of the messages: more than the tables have buckets, some with
\* the same natural bucket, some with the same low word
Uuids == { u \in (0 .. 1) \X (0 .. 2) : u[1] + u[2] < 3 }

\* the node ids a reply can carry: those the rewriter gave out, one the
\* engine's client chose itself, and one not given out yet
ReplyIds == (NodeIdStart - 1) .. (NodeIdStart + MaxUuidIds)

UuidOnly == UNCHANGED <<tree, engine, reader, capture, g_scheduler, pending,
                        born, render, hist, written, observed>>

\* rewrite_uuid_to_int32 of a message whose argument is the UUID <<hi, lo>>
rewrite_uuid_to_int32 ==
    \E u \in Uuids :
        LET hi == u[1]
            lo == u[2]
            r == uuid_insert(uuid, hi, lo)
            fresh == r.U.node_id_counter # uuid.node_id_counter
            warns == fresh /\ uuid.uuid_map_count
                                  > (UUID_HASH_CAPACITY * 3) \div 4
        IN  /\ uuid.spin = "no"
            /\ uuid.node_id_counter < NodeIdStart + MaxUuidIds
            /\ uuid' = r.U
            /\ \E w \in IF warns THEN worklet_debug(RenderState)
                        ELSE { RenderState } :
                  /\ control' = w.c
                  /\ metrics' = w.m
                  /\ ring_buffer_storage' = w.s
                  /\ statics' = w.st
            /\ last' = [op |-> "rewrite_uuid_to_int32"]
            /\ UuidOnly

\* rewrite_int32_to_uuid of a reply for node_id, /n_end or another address
rewrite_int32_to_uuid ==
    \E node_id \in ReplyIds, is_n_end \in BOOLEAN :
        LET f == rev_find(uuid.rev_hash, node_id)
            after == IF f.found /\ is_n_end
                     THEN uuid_delete_by_id(uuid, node_id) ELSE uuid
        IN  /\ uuid.spin = "no"
            /\ uuid' = IF f.ends THEN after
                       ELSE [uuid EXCEPT !.spin = "rev_find",
                                         !.idx = rev_hash_func(node_id)]
            /\ last' = IF f.found /\ is_n_end
                       THEN [op |-> "uuid_delete_by_id",
                             shifted |->
                                 \E i \in UuidBuckets :
                                     /\ after.fwd_hash[i].node_id # FWD_EMPTY
                                     /\ after.fwd_hash[i] # uuid.fwd_hash[i]]
                       ELSE last
            /\ UNCHANGED <<control, metrics, ring_buffer_storage, statics>>
            /\ UuidOnly

\* uuid_map_forward_lookup
uuid_map_forward_lookup ==
    \E u \in Uuids :
        LET hi == u[1]
            lo == u[2]
            f == fwd_find(uuid.fwd_hash, hi, lo)
        IN  /\ uuid.spin = "no"
            /\ uuid' = IF f.ends THEN uuid
                       ELSE [uuid EXCEPT !.spin = "fwd_find",
                                         !.idx = fwd_hash_func(hi, lo)]
            /\ last' = last
            /\ UNCHANGED <<control, metrics, ring_buffer_storage, statics>>
            /\ UuidOnly

\* one more pass of a probe loop that finds neither its key nor an empty
\* bucket: idx = (idx + 1) & UUID_HASH_MASK
ProbeAgain ==
    /\ uuid.spin # "no"
    /\ uuid' = [uuid EXCEPT !.idx = (@ + 1) % UUID_HASH_CAPACITY]
    /\ UNCHANGED <<control, metrics, ring_buffer_storage, statics, last>>
    /\ UuidOnly

NextUuid ==
    \/ rewrite_uuid_to_int32
    \/ rewrite_int32_to_uuid
    \/ uuid_map_forward_lookup
    \/ ProbeAgain

SpecUuid == InitRings /\ [][NextUuid]_vars

\* the render thread is scheduled again and again
SpecUuidFair == SpecUuid /\ WF_vars(NextUuid)

\* The callbacks store by store, with an observer on another thread.
CallbackBegin ==
    \E e \in NodeEvents :
        /\ engine.plan = <<>>
        /\ engine.ops < MaxTreeOps
        /\ engine' = [engine EXCEPT !.children = e.children,
                                    !.inner = e.inner,
                                    !.ops = @ + 1,
                                    !.node = e.node,
                                    !.overflowed = @ \/ Overflows(Plan(tree, e)),
                                    !.old = OldEntry(tree, e.node.mID),
                                    !.plan = Plan(tree, e)]
        /\ last' = [op |-> e.kind, id |-> e.node.mID, plan |-> Plan(tree, e)]
        /\ UNCHANGED <<uuid, tree, reader, capture, control, metrics,
                       ring_buffer_storage, g_scheduler, pending, born,
                       render, statics, hist, written, observed>>

CallbackStep ==
    /\ engine.plan # <<>>
    /\ tree' = Stage(tree, Head(engine.plan), engine.node, engine.old)
    /\ engine' = [engine EXCEPT
                     !.plan = Tail(@),
                     !.stable = IF Len(engine.plan) = 1 THEN Stable(tree', @)
                                ELSE @]
    /\ \E w \in Logged(engine.plan) :
          /\ control' = w.c
          /\ ring_buffer_storage' = w.s
    /\ last' = [op |-> "stage", stage |-> Head(engine.plan)]
    /\ UNCHANGED <<uuid, reader, capture, metrics, g_scheduler, pending, born,
                   render, statics, hist, written, observed>>

\* the observer: version, then the entries one by one, then version again
ReadBegin ==
    /\ reader.pc \in {"idle", "valid"}
    /\ reader' = [reader EXCEPT !.pc = "copy", !.version = tree.version,
                                !.next = 0]
    /\ last' = [op |-> "read_begin"]
    /\ UNCHANGED <<uuid, tree, engine, capture, control, metrics,
                   ring_buffer_storage, g_scheduler, pending, born, render,
                   statics, hist, written, observed>>

ReadEntry ==
    /\ reader.pc = "copy"
    /\ reader.next < NODE_TREE_MIRROR_MAX_NODES
    /\ reader' = [reader EXCEPT !.entries[reader.next] =
                                    tree.entries[reader.next],
                                !.next = @ + 1]
    /\ last' = [op |-> "read_entry"]
    /\ UNCHANGED <<uuid, tree, engine, capture, control, metrics,
                   ring_buffer_storage, g_scheduler, pending, born, render,
                   statics, hist, written, observed>>

ReadEnd ==
    /\ reader.pc = "copy"
    /\ reader.next = NODE_TREE_MIRROR_MAX_NODES
    /\ reader' = [reader EXCEPT !.pc = IF tree.version = reader.version
                                       THEN "valid" ELSE "idle"]
    /\ last' = [op |-> "read_end"]
    /\ UNCHANGED <<uuid, tree, engine, capture, control, metrics,
                   ring_buffer_storage, g_scheduler, pending, born, render,
                   statics, hist, written, observed>>

NextTreeRead ==
    \/ CallbackBegin
    \/ CallbackStep
    \/ ReadBegin
    \/ ReadEntry
    \/ ReadEnd

SpecTreeRead == InitRings /\ [][NextTreeRead]_vars

\* The test harness starts and stops the capture; the render calls run with
\* nothing in the inbound ring.
CaptureStart ==
    /\ capture.enabled = 0
    /\ capture' = [enabled |-> 1, head |-> 0]
    /\ last' = [op |-> "capture_start"]
    /\ UNCHANGED <<uuid, tree, engine, reader, control, metrics,
                   ring_buffer_storage, g_scheduler, pending, born, render,
                   statics, hist, written, observed>>

CaptureStop ==
    /\ capture.enabled # 0
    /\ capture' = [capture EXCEPT !.enabled = 0]
    /\ last' = [op |-> "capture_stop"]
    /\ UNCHANGED <<uuid, tree, engine, reader, control, metrics,
                   ring_buffer_storage, g_scheduler, pending, born, render,
                   statics, hist, written, observed>>

NextCapture ==
    \/ CaptureStart
    \/ CaptureStop
    \/ process_audio_begin
    \/ process_audio_drain
    \/ process_audio_dispatch

SpecCapture == InitRings /\ [][NextCapture]_vars

\* A writer of the inbound ring that never lets a frame wrap: before a frame
\* that does not fit at the ring end it stamps a padding sentinel (or zeroes
\* the slack) and writes the frame at offset 0.
PaddedPayloads ==
    { <<1>>, [i \in 1 .. IN_BUFFER_SIZE - 2 * HEADER_SIZE |-> 1] }

InWritePadded ==
    \E data \in PaddedPayloads :
        LET length == HEADER_SIZE + Len(data)
            head == control.in_head
            space_to_end == IN_BUFFER_SIZE - head
            wrap == length > space_to_end
            at == IF wrap THEN 0 ELSE head
            frame == <<MESSAGE_MAGIC, length, control.in_sequence, 0>> \o data
            mem0 == ring_buffer_storage["IN"]
            mem1 == IF ~wrap THEN mem0
                    ELSE IF space_to_end >= HEADER_SIZE
                    THEN MemCpy(mem0, head, <<PADDING_MAGIC, 0, 0, 0>>)
                    ELSE MemSet0(mem0, head, space_to_end)
        IN  /\ control.in_sequence < MaxInWrites
            /\ available_space(head, control.in_tail, IN_BUFFER_SIZE) >= length
            /\ wrap => control.in_tail > length
            /\ ring_buffer_storage' =
                   [ring_buffer_storage EXCEPT !["IN"] = MemCpy(mem1, at, frame)]
            /\ control' = [control EXCEPT
                              !.in_head = (at + length) % IN_BUFFER_SIZE,
                              !.in_sequence = (@ + 1) % SEQ_MOD]
            /\ hist' = [hist EXCEPT !.in = Append(@, data)]
            /\ last' = [op |-> "in_write", frame |-> frame]
            /\ UNCHANGED <<uuid, tree, engine, reader, capture, metrics, g_scheduler,
                           pending, born, render, statics, written, observed>>

NextPadded ==
    \/ InWritePadded
    \/ process_audio_begin
    \/ process_audio_drain
    \/ process_audio_dispatch

SpecPadded == InitRings /\ [][NextPadded]_vars

\* The purging writer when the frames it resumes with are future bundles
\* that stay in the scheduler: the scheduler fills and the next frame is held
\* back in the ring.
HeldSequences == {0, 1, 3, Pow2(SeqBits - 1)}

HeldPayloads == { <<BUNDLE_MARKER, 3>> }

InWriteHeld ==
    \E sequence \in HeldSequences, data \in HeldPayloads :
        LET head == control.in_head
            frame == <<MESSAGE_MAGIC, HEADER_SIZE + Len(data), sequence, 0>>
                         \o data
        IN  /\ Len(hist.in) < MaxInWrites
            /\ available_space(head, control.in_tail, IN_BUFFER_SIZE)
                   >= Len(frame)
            /\ ring_buffer_storage' =
                   [ring_buffer_storage EXCEPT !["IN"] =
                        MemCpyWrap(@, head, frame, IN_BUFFER_SIZE)]
            /\ control' = [control EXCEPT
                              !.in_head = (head + Len(frame)) % IN_BUFFER_SIZE,
                              !.in_sequence = (sequence + 1) % SEQ_MOD]
            /\ hist' = [hist EXCEPT !.in = Append(@, data)]
            /\ last' = [op |-> "in_write", frame |-> frame]
            /\ UNCHANGED <<uuid, tree, engine, reader, capture,
                           metrics, g_scheduler, pending, born, render, statics,
                           written, observed>>

\* The dispatch window when the time stamps use the whole width: time tags
\* and times of render calls below and above 2^(w-1).
TimeTags == {2, Pow2(TimeBits - 1), Pow2(TimeBits) - 2}

TimePayloads == { <<BUNDLE_MARKER, t>> : t \in TimeTags }

InWriteTimes == InWriteOf(TimePayloads)

TimeNows == {0, 2, Pow2(TimeBits) - 4}

process_audio_begin_epoch == process_audio_begin_at(TimeNows)

NextTimes ==
    \/ InWriteTimes
    \/ process_audio_begin_epoch
    \/ process_audio_drain
    \/ process_audio_dispatch
    \/ process_audio_perform

SpecTimes == InitRings /\ [][NextTimes]_vars

NextHeld ==
    \/ InWriteHeld
    \/ process_audio_begin
    \/ process_audio_drain
    \/ process_audio_dispatch
    \/ process_audio_perform
    \/ clear_scheduler

SpecHeld == InitRings /\ [][NextHeld]_vars

(***************************************************************************)
(* Claims about the inbound drain.                                         *)
(***************************************************************************)
\* the frames consumed so far that went the way `kind`
ConsumedAs(kind) ==
    { i \in 1..Len(hist.consumed) : hist.consumed[i].kind = kind }

\* the frame at the inbound tail has met a full scheduler and waits
HeldBack == (Len(hist.consumed) + 1) \in hist.blocked

\* C11: Backpressure is not a loss.  A future bundle that met a full
\* scheduler stays at the inbound tail; under repeated render calls with
\* advancing time it is eventually consumed, and then it has been inserted
\* into the scheduler, exactly once; the frames consumed are, in order, the
\* frames the producer wrote.
C11_BackpressureNoLoss ==
    /\ [](/\ Len(hist.consumed) <= Len(hist.in)
          /\ \A i \in 1..Len(hist.consumed) :
                hist.consumed[i].data = hist.in[i]
          /\ born.n = Cardinality(ConsumedAs("scheduled"))
          /\ \A k \in hist.blocked :
                Len(hist.consumed) >= k => hist.consumed[k].kind = "scheduled")
    /\ HeldBack ~> ~HeldBack

\* the smaller of two numbers
Min(a, b) == IF a < b THEN a ELSE b

\* C12: Per-quantum drain cap.  One render call consumes at most
\* MAX_MESSAGES_PER_FRAME frames; when its drain loop ends without
\* backpressure it has consumed exactly min(N, cap) of the N frames the
\* ring held when the call began, in ring order, and the others are still
\* in the ring: the drain writes no ring byte and in_tail stands at the
\* first frame not consumed.
C12_DrainCap ==
    /\ [](render.messages_this_frame <= MAX_MESSAGES_PER_FRAME)
    /\ [][ last'.op = "drain"
            => /\ ring_buffer_storage'["IN"] = ring_buffer_storage["IN"]
               /\ Len(hist'.consumed) - Len(hist.consumed)
                      = render'.messages_this_frame - render.messages_this_frame
               /\ \A i \in 1..Len(hist'.consumed) :
                      hist'.consumed[i].data = hist.in[i]
               /\ last'.kind = "exit"
                      => /\ render.messages_this_frame
                               = Min(render.avail, MAX_MESSAGES_PER_FRAME)
                         /\ Len(hist.in) - Len(hist.consumed)
                               >= render.avail - render.messages_this_frame
                         /\ (render.avail > MAX_MESSAGES_PER_FRAME
                               => TailPayload = hist.in[Len(hist.consumed) + 1])
          ]_vars

\* C12 witness: a call that found one frame more than the cap has ended its
\* drain with exactly the cap consumed and the last frame still at the tail.
C12_Witness ==
    /\ last.op = "drain" /\ last.kind = "exit"
    /\ render.avail = MAX_MESSAGES_PER_FRAME + 1
    /\ render.messages_this_frame = MAX_MESSAGES_PER_FRAME
    /\ control.in_tail # control.in_head
    /\ TailPayload = hist.in[Len(hist.consumed) + 1]
\* C13: Classification.  Every valid frame consumed from the inbound ring
\* goes exactly one of three ways by the shape of its payload: a non-bundle
\* is dispatched as a message during the drain; a bundle with time tag 0 or
\* 1 is dispatched as a bundle during the drain; a bundle with time tag > 1
\* is inserted into the scheduler and not dispatched during the drain.
C13_Classification ==
    [][ (last'.op = "drain"
           /\ render'.messages_this_frame = render.messages_this_frame + 1)
        => LET d == TailPayload
               bundle == Len(d) >= BUNDLE_HEADER_SIZE /\ d[1] = BUNDLE_MARKER
           IN  IF ~bundle
               THEN last'.kind = "message" /\ g_scheduler' = g_scheduler
               ELSE IF d[2] \in {0, 1}
               THEN last'.kind = "bundle" /\ g_scheduler' = g_scheduler
               ELSE /\ last'.kind = "scheduled"
                    /\ Len(g_scheduler'.mQueue) = Len(g_scheduler.mQueue) + 1
                    /\ \E i \in Slots :
                          /\ ~g_scheduler.mPool[i].mInUse
                          /\ g_scheduler'.mPool[i].mInUse
                          /\ g_scheduler'.mPool[i].mTime = ToInt64(d[2])
                          /\ SubSeq(g_scheduler'.mPool[i].mData, 1, Len(d)) = d
      ]_vars
(***************************************************************************)
(* Claims about the scheduled dispatch.                                    *)
(***************************************************************************)
\* the time tags of the bundles in the scheduler's queue
QueuedTimes == { g_scheduler.mPool[i].mTime : i \in QueuedSlots(g_scheduler) }

\* C14 as claimed: in a call whose quantum starts at t_now and lasts D, the
\* scheduled bundles stamped up to t_now + D - 1 are dispatched and a bundle
\* stamped exactly t_now + D is not: it is deferred.
C14_WindowAsClaimed ==
    [][ /\ last'.op = "perform" => last'.time <= last'.now + g_osc_increment - 1
        /\ last'.op = "end"
              => \A t \in QueuedTimes : t > last'.now + g_osc_increment - 1
      ]_vars

\* C14 (amended): the window is closed at its end.  Every bundle in the
\* scheduler stamped up to and including t_now + D is dispatched during
\* the call (so t_now + D itself is, at the last sample of the block), and
\* only bundles stamped t_now + D + 1 or later are left for a following
\* quantum; bundles stamped 0 or 1 are dispatched by the drain.
C14_WindowInclusive ==
    [][ /\ last'.op = "perform"
              => /\ last'.time <= last'.now + g_osc_increment
                 /\ last'.time = last'.now + g_osc_increment
                        => last'.offset = BUF_LENGTH - 1
        /\ last'.op = "end"
              => \A t \in QueuedTimes : t >= last'.now + g_osc_increment + 1
        /\ (last'.op = "drain" /\ last'.kind = "bundle")
              => /\ TailPayload[2] \in {0, 1}
                 /\ g_scheduler' = g_scheduler
      ]_vars

\* C14 witness: a bundle stamped exactly t_now + D has been dispatched, and
\* one stamped t_now + D + 1 is still queued.
C14_Witness ==
    /\ last.op = "perform"
    /\ last.time = last.now + g_osc_increment
    /\ last.now + g_osc_increment + 1 \in QueuedTimes
\* the distance between two numbers
Dist(a, b) == IF a < b THEN b - a ELSE a - b

\* C15: Same-call dispatch.  Every future bundle a render call drains whose
\* time tag lies in the call's quantum [t_now, t_now + D) has, when the
\* call ends, been scheduled and dispatched by that same call, at the
\* sample offset nearest to its position in the quantum (a tag of
\* t_now + D/2 lands at about half the block); an immediate bundle the
\* call drains has been dispatched by its drain.
C15_SameCallDispatch ==
    [][ last'.op = "end"
        => \A i \in (Len(hist.consumed) - render.messages_this_frame + 1)
                        ..Len(hist.consumed) :
              LET d == hist.consumed[i].data
                  tag == ToInt64(d[2])
                  diff == tag - render.currentOscTime
                  id == born.n - Cardinality({ j \in (i + 1)..Len(hist.consumed) :
                                               hist.consumed[j].kind = "scheduled" })
              IN  IF ~(Len(d) >= BUNDLE_HEADER_SIZE /\ d[1] = BUNDLE_MARKER)
                  THEN TRUE
                  ELSE IF d[2] \in {0, 1}
                  THEN hist.consumed[i].kind = "bundle"
                  ELSE (diff >= 0 /\ diff < g_osc_increment)
                       => /\ hist.consumed[i].kind = "scheduled"
                          /\ \E j \in DOMAIN render.performed :
                                /\ render.performed[j].id = id
                                /\ render.performed[j].time = tag
                                /\ 2 * Dist(render.performed[j].offset
                                                * g_osc_increment,
                                            diff * BUF_LENGTH)
                                      <= g_osc_increment
      ]_vars
\* how late the bundle just performed was (protocol time, scaled: one unit
\* is one millisecond); positive when its time tag is earlier than t_now
Lateness(rec) == rec.now - rec.time

\* C16 as claimed: each dispatch of a scheduled bundle adds one to
\* scheduler_lates if the bundle's time tag is earlier than t_now and
\* nothing otherwise; after a late dispatch scheduler_max_late_ms is at
\* least the bundle's lateness in whole milliseconds; it never decreases.
C16_LatenessAsClaimed ==
    [][ /\ metrics'.scheduler_max_late_ms >= metrics.scheduler_max_late_ms
        /\ last'.op = "perform"
              => /\ metrics'.scheduler_lates = metrics.scheduler_lates
                        + (IF Lateness(last') > 0 THEN 1 ELSE 0)
                 /\ Lateness(last') > 0
                        => metrics'.scheduler_max_late_ms >= Lateness(last')
      ]_vars

\* C16 (amended): as claimed, except that a lateness is recorded up to the
\* cap LATE_MS_CAP (10 s): after a late dispatch scheduler_max_late_ms is at
\* least min(lateness, cap), and scheduler_last_late_ms is exactly that.
C16_LatenessCapped ==
    [][ /\ metrics'.scheduler_max_late_ms >= metrics.scheduler_max_late_ms
        /\ metrics'.scheduler_max_late_ms <= LATE_MS_CAP
        /\ last'.op = "perform"
              => /\ metrics'.scheduler_lates = metrics.scheduler_lates
                        + (IF Lateness(last') > 0 THEN 1 ELSE 0)
                 /\ Lateness(last') > 0
                        => /\ metrics'.scheduler_max_late_ms
                                 >= Min(Lateness(last'), LATE_MS_CAP)
                           /\ metrics'.scheduler_last_late_ms
                                 = Min(Lateness(last'), LATE_MS_CAP)
                 /\ Lateness(last') <= 0
                        => /\ metrics'.scheduler_max_late_ms
                                 = metrics.scheduler_max_late_ms
                           /\ metrics'.scheduler_last_late_ms
                                 = metrics.scheduler_last_late_ms
      ]_vars

\* C16 witness: a bundle later than the cap has been dispatched after a less
\* late one, and the recorded maximum is the cap.
C16_Witness ==
    /\ last.op = "perform"
    /\ Lateness(last) > LATE_MS_CAP
    /\ metrics.scheduler_lates = 2
    /\ metrics.scheduler_max_late_ms = LATE_MS_CAP
\* C17: Bounded render.  Whatever bytes the inbound ring holds, a render
\* call's drain loop makes a bounded number of passes (here: no more than
\* one per ring byte plus the per-call cap) and its dispatch loop makes at
\* most as many passes as the scheduler has slots.
C17_BoundedRender ==
    /\ render.iterations <= Capacity("IN") + MAX_MESSAGES_PER_FRAME
    /\ render.dispatches <= MAX_SCHEDULED_BUNDLES
(***************************************************************************)
(* Claims about initialisation and the status flags.                       *)
(***************************************************************************)
\* C18: Engine init failure is hard.  Whenever init_memory fails at any
\* step the engine-error status bit is set, and from then on every render
\* call is a no-op: it never gets past its entry, in_tail stays where it
\* is, nothing is counted as processed and nothing is scheduled.
C18_InitFailureHard ==
    /\ [](hist.init \in InitFailures
            => "STATUS_WASM_ERROR" \in control.status_flags)
    /\ [][ hist.init \in InitFailures
            => /\ render'.at = "idle"
               /\ control'.in_tail = control.in_tail
               /\ metrics'.messages_processed = metrics.messages_processed
               /\ born' = born ]_vars
\* C19: Status flags are sticky on the render side.  After initialisation
\* no operation of the render thread (process_audio, ring writes, debug
\* logging, clear_scheduler) clears a status bit: a bit that is set stays
\* set.
C19_StatusSticky ==
    [][ last'.op # "init_memory"
        => control.status_flags \subseteq control'.status_flags ]_vars

\* C19 witness: the three bits have been set one after the other, and
\* clear_scheduler has run since.
C19_Witness ==
    /\ control.status_flags = {"STATUS_BUFFER_FULL", "STATUS_FRAGMENTED_MSG",
                               "STATUS_WASM_ERROR"}
    /\ last.op = "clear_scheduler"
\* C20: clear_scheduler empties the scheduler from any reachable state:
\* afterwards its size is 0, every pool slot is free, NextTime() is
\* INT64_MAX and the depth metric is 0; and no bundle scheduled before a
\* clear is dispatched by a later render call.
C20_ClearEmpties ==
    /\ [][ last'.op = "clear_scheduler"
            => /\ mQueueSize(g_scheduler') = 0
               /\ \A i \in Slots : ~g_scheduler'.mPool[i].mInUse
               /\ NextTime(g_scheduler') = INT64_MAX
               /\ metrics'.scheduler_queue_depth = 0 ]_vars
    /\ [](last.op = "perform" => last.id > hist.clearMark)

\* C20 witness: a full scheduler has been cleared.
C20_Witness ==
    /\ last.op = "clear_scheduler"
    /\ last.size = MAX_SCHEDULED_BUNDLES
    /\ g_scheduler.mQueue = <<>>
    /\ metrics.scheduler_queue_max = MAX_SCHEDULED_BUNDLES

\* C21 After clear_scheduler, the first valid frame consumed from the inbound
\* ring leaves messages_sequence_gaps as it was, whatever sequence number the
\* frame carries.
C21_ClearResetsGapDetector ==
    [][(/\ hist.clearAt = Len(hist.consumed)
        /\ Len(hist'.consumed) = Len(hist.consumed) + 1)
       => metrics'.messages_sequence_gaps = metrics.messages_sequence_gaps]_vars

\* a frame whose sequence number skips ahead of the last one seen before the
\* clear has been consumed first after it
C21_Witness ==
    /\ hist.clearAt >= 1
    /\ Len(hist.consumed) = hist.clearAt + 1
    /\ last.op = "drain"
    /\ metrics.messages_sequence_gaps = 0

(***************************************************************************)
(* Claims about the node tree mirror.                                      *)
(***************************************************************************)
UsedSlots == { i \in MirrorSlots : tree.entries[i].id # -1 }

\* the engine's nodes that have no mirror entry
Unmirrored ==
    { id \in Range(engine.children) \cup {RootId} :
        NodeTree_FindIndex(tree, id) < 0 }

\* C22 Mirror consistency: after any sequence of add, remove and move
\* callbacks, refused adds and removes of un-mirrored nodes included, the
\* number of entries with id # -1 equals node_count, and version has been
\* incremented at least node_count times.
C22_MirrorConsistency ==
    /\ Cardinality(UsedSlots) = tree.node_count
    /\ tree.version >= tree.node_count

\* the mirror is full again after an add was refused and an un-mirrored
\* node was removed
C22_Witness ==
    /\ last.op = "NodeTree_Remove"
    /\ last.plan = <<"RemoveDropped">>
    /\ tree.node_count = NODE_TREE_MIRROR_MAX_NODES
    /\ engine.ops >= 3

RECURSIVE FreeWalk(_, _, _)
\* the free list from slot on, at most fuel links
FreeWalk(T, slot, fuel) ==
    IF slot < 0 \/ fuel = 0 THEN <<>>
    ELSE <<slot>> \o FreeWalk(T, T.nt_free_next[slot], fuel - 1)

FreeList == FreeWalk(tree, tree.nt_free_head, NODE_TREE_MIRROR_MAX_NODES + 1)

C25_DroppedExact == tree.dropped_count = Cardinality(Unmirrored)

\* C26 Optimistic read validation: an observer that reads version, copies the
\* entries and reads version again with the same value holds the entries of
\* the mirror as they were between two callbacks at that version.
C26_ValidatedSnapshot ==
    reader.pc = "valid" =>
        reader.entries = engine.stable[reader.version].entries

(***************************************************************************)
(* Claims about the audio capture.                                         *)
(***************************************************************************)
\* C27 Audio capture is bounded: a render call that ends with the capture
\* enabled and head + QUANTUM_SIZE <= AUDIO_CAPTURE_FRAMES advances head by
\* one quantum; with the capture enabled and no room it leaves head
\* unchanged and sets enabled to 0; head never exceeds the capacity.
C27_CaptureBounded ==
    [][/\ capture'.head <= AUDIO_CAPTURE_FRAMES
       /\ (last'.op = "end" /\ capture.enabled # 0) =>
             IF capture.head + QUANTUM_SIZE <= AUDIO_CAPTURE_FRAMES
             THEN /\ capture'.head = capture.head + QUANTUM_SIZE
                  /\ capture'.enabled = capture.enabled
             ELSE /\ capture'.head = capture.head
                  /\ capture'.enabled = 0
      ]_vars

(***************************************************************************)
(* Claims about the ring writer's wrap.                                    *)
(***************************************************************************)
\* the cells of ring r from `from` on that the frame written at 0 with
\* length len has not covered
Uncovered(r, from, len) == { i \in from .. Capacity(r) - 1 : i >= len }

\* C28 Frames never wrap: a frame written by ring_buffer_write lies in one
\* range p .. p + length - 1 with p + length <= capacity.  When it does not
\* fit between head and the ring end the writer stamps a padding sentinel at
\* head if at least HEADER_SIZE cells remain there and zeroes the remaining
\* cells otherwise; either way the frame is written at offset 0 and head is
\* published as length mod capacity.
C28_FramesNeverWrap ==
    (last.op \in {"osc_reply", "debug_raw"} /\ last.ret) =>
        LET r == last.ring
            mem == ring_buffer_storage[r]
            fits == last.len <= Capacity(r) - last.head
            p == IF fits THEN last.head ELSE 0
        IN  /\ last.at = p
            /\ p + last.len <= Capacity(r)
            /\ mem[p] = MESSAGE_MAGIC
            /\ mem[p + 1] = last.len
            /\ mem[p + 2] = last.seq
            /\ \A k \in 1 .. Len(last.data) :
                  mem[p + HEADER_SIZE + k - 1] = last.data[k]
            /\ control[HeadField(r)] = (p + last.len) % Capacity(r)
            /\ fits => last.pad = "none"
            /\ (~fits /\ Capacity(r) - last.head >= HEADER_SIZE) =>
                  /\ last.pad = "sentinel"
                  /\ \A i \in Uncovered(r, last.head, last.len) :
                        i - last.head < 3 =>
                            mem[i] = <<PADDING_MAGIC, 0, 0>>[i - last.head + 1]
            /\ (~fits /\ Capacity(r) - last.head < HEADER_SIZE) =>
                  /\ last.pad = "zeroed"
                  /\ \A i \in Uncovered(r, last.head, last.len) : mem[i] = 0

\* a frame went to offset 0 behind a sentinel
C28_Witness ==
    /\ last.op = "osc_reply"
    /\ last.ret
    /\ last.pad = "sentinel"
    /\ ring_buffer_storage["OUT"][last.head] = PADDING_MAGIC
    /\ control.out_head = last.len

\* C29 The ring writer stays inside the free space: a successful
\* ring_buffer_write changes no cell of the unread region from tail to the
\* old head, and never publishes head equal to tail.
C29_WriterInsideFreeSpace ==
    [][(last'.op \in {"osc_reply", "debug_raw"} /\ last'.ret) =>
          LET r == last'.ring
              size == Capacity(r)
              head == control[HeadField(r)]
              tail == control[TailField(r)]
          IN  /\ \A i \in 0 .. size - 1 :
                    (i - tail) % size < (head - tail) % size =>
                        ring_buffer_storage'[r][i] = ring_buffer_storage[r][i]
              /\ control'[HeadField(r)] # control'[TailField(r)]
      ]_vars

(***************************************************************************)
(* Claims about padding sentinels in the inbound ring.                     *)
(***************************************************************************)
\* the drain loop is about to read a header whose magic is PADDING_MAGIC
PaddingAtTail ==
    /\ render.at = "drain"
    /\ DrainContinues(render.in_head, control.in_tail,
                      render.messages_this_frame)
    /\ ring_buffer_storage["IN"][control.in_tail] = PADDING_MAGIC

C31_RereadCountsNoGap ==
    [][(last'.op = "drain" /\ last'.reread)
       => metrics'.messages_sequence_gaps = metrics.messages_sequence_gaps]_vars

\* a frame behind a gap of one has been read a second time and held back
\* again, and the counter holds that one gap
C31_Witness ==
    /\ last.op = "drain"
    /\ last.reread
    /\ last.kind = "backpressure"
    /\ metrics.messages_sequence_gaps = 1

\* a 64-bit time stamp as the protocol orders it: unsigned
Unsigned64(t) == t % Pow2(TimeBits)

\* C32 When a scheduled bundle is dispatched the engine's sample offset is in
\* 0 .. BUF_LENGTH - 1, and it is 0 for a bundle whose time tag is at or
\* before the time of the call; outside the dispatch loop (between calls,
\* which is where the engine runs, and in the drain phase) the sample and
\* sub-sample offsets are both 0.
C32_OffsetDiscipline ==
    /\ render.at = "perform"
          => /\ render.mSampleOffset \in 0..(BUF_LENGTH - 1)
             /\ Unsigned64(render.schedTime) <= Unsigned64(render.currentOscTime)
                    => render.mSampleOffset = 0
    /\ render.at \in {"idle", "drain"}
          => render.mSampleOffset = 0 /\ render.mSubsampleOffset = 0

\* a call has ended whose last bundle was dispatched at the last sample of
\* the block
C32_Witness ==
    /\ last.op = "end"
    /\ last.offset = BUF_LENGTH - 1
    /\ render.at = "idle"
    /\ render.mSampleOffset = 0

\* the steps of one call that handle a frame of the drain
DrainPhases == {"message", "bundle", "scheduled", "not_scheduled"}

\* p is d steps of the drain, the zeroing of the output buses and the
\* increment of the buffer counter, n scheduled bundles, one engine run, the
\* flush of the notification queues and the copy to the staging buffer
InOrder(p, d) ==
    /\ Len(p) >= d + 5
    /\ \A i \in 1..Len(p) :
          p[i] = IF i <= d THEN p[i]
                 ELSE IF i = d + 1 THEN "zero_bus"
                 ELSE IF i = d + 2 THEN "buf_counter"
                 ELSE IF i = Len(p) - 2 THEN "run"
                 ELSE IF i = Len(p) - 1 THEN "flush"
                 ELSE IF i = Len(p) THEN "copy"
                 ELSE "perform"
    /\ \A i \in 1..d : p[i] \in DrainPhases

\* C33 The steps of every render call that ends are, in this order: the
\* frames it drained, dispatched or scheduled; the zeroing of the output bus
\* and the increment of the quantum counter; the due scheduled bundles; one
\* engine run; the flush of the notification queues and the copy of the
\* output bus.  No dispatch follows the engine run.
C33_PhaseOrder ==
    last.op = "end" => InOrder(last.phases, last.drained)

\* a call has ended that dispatched a message, scheduled a bundle and
\* performed it
C33_Witness ==
    /\ last.op = "end"
    /\ last.drained = 2
    /\ \E i \in 1..2 : last.phases[i] = "message"
    /\ \E i \in 1..2 : last.phases[i] = "scheduled"
    /\ Len(last.phases) = 8
    /\ last.phases[5] = "perform"

\* C34 When a render call ends, no bundle is left in the scheduler whose time
\* tag, as an unsigned 64-bit protocol time, is at or before the end of the
\* call's window, also when the time tag and the time of the call differ in
\* the top bit.
C34_UnsignedWindow ==
    last.op = "end"
        => \A t \in QueuedTimes :
              Unsigned64(t) > Unsigned64(last.now + statics.osc_increment)

\* the mirror entries that carry id
EntriesOf(id) == { i \in MirrorSlots : tree.entries[i].id = id }

\* the engine's nodes below the root
EngineNodes == Range(engine.children) \cup Range(engine.inner)

\* the ids the engine's tree gives node id: parent, previous and next
\* sibling, first child
EngineLinks(id) ==
    LET n == IF id = RootId THEN RootNode(engine.children)
             ELSE EngineNode(engine.children, engine.inner, id)
    IN  [parent_id |-> n.mParent, prev_id |-> n.mPrev, next_id |-> n.mNext,
         head_id |-> IF n.mIsGroup THEN n.mHead ELSE -1]

LowestFree(h) ==
    CHOOSE v \in MirrorSlots \ HashValues(h) :
        \A w \in MirrorSlots \ HashValues(h) : v <= w

\* C36 With at most half of the buckets taken, an insert makes find return
\* the inserted slot for its key, a remove makes find return -1 for its key,
\* and neither changes what find returns for any other key, so that find
\* returns the inserted slot for every live key and -1 for every other key;
\* the table keeps an empty bucket, which ends every probe loop.
C36_HashIndex ==
    [][/\ \A k \in HashKeys :
            nt_hash_find(tree'.nt_hash, k) =
                IF k # last'.key THEN nt_hash_find(tree.nt_hash, k)
                ELSE IF last'.op = "nt_hash_insert"
                THEN LowestFree(tree.nt_hash)
                ELSE -1
       /\ HashLoad(tree'.nt_hash) <= NT_HASH_CAPACITY \div 2
       /\ HashLoad(tree'.nt_hash) =
              Cardinality({ k \in HashKeys :
                              nt_hash_find(tree'.nt_hash, k) # -1 })]_vars

\* a remove of the key in the last bucket has pulled the key in the first
\* bucket back over the end of the table, and the key behind it into the
\* first bucket
C36_Witness ==
    /\ last.op = "nt_hash_remove"
    /\ last.wrapped
    /\ tree.nt_hash[0].key # NT_HASH_EMPTY
    /\ HashLoad(tree.nt_hash) = 2

\* C37: every frame consumed from the inbound ring is accounted for.  When a
\* drain step advances the tail past a frame, the frame was dispatched to
\* the engine or stored in the scheduler, or messages_dropped or
\* scheduler_queue_dropped was incremented for it; and messages_processed is
\* incremented only for a frame that was dispatched or stored.
C37_ConsumedAccounted ==
    [][ (last'.op = "drain" /\ control'.in_tail # control.in_tail)
        => /\ \/ last'.kind \in {"message", "bundle", "scheduled"}
              \/ metrics'.messages_dropped > metrics.messages_dropped
              \/ metrics'.scheduler_queue_dropped
                     > metrics.scheduler_queue_dropped
           /\ metrics'.messages_processed # metrics.messages_processed
                  => last'.kind \in {"message", "bundle", "scheduled"}
      ]_vars

\* the pool slots a scheduled bundle lives in between its Add and its
\* ReleaseSlot: those the queue refers to and the one process_audio holds
LiveSlots ==
    QueuedSlots(g_scheduler)
        \cup (IF render.bundle >= 0 THEN {render.bundle} ELSE {})

\* the payload given to the Add that filled slot i
Given(i) == hist.sched[born.of[i]]

\* C38: scheduled payload integrity.  The time tag, size and payload bytes
\* dispatched for a scheduled bundle are those given to the Add that
\* scheduled it; between a bundle's Add and its release its pool slot is
\* never handed to another Add; the queue never holds two entries for one
\* slot nor an entry for a free slot.
C38_PayloadIntegrity ==
    /\ [](/\ Cardinality(QueuedSlots(g_scheduler)) = mQueueSize(g_scheduler)
          /\ render.bundle \notin QueuedSlots(g_scheduler)
          /\ \A k \in 1..mQueueSize(g_scheduler) :
                g_scheduler.mQueue[k].time
                    = g_scheduler.mPool[g_scheduler.mQueue[k].poolIndex].mTime
          /\ \A i \in LiveSlots :
                /\ g_scheduler.mPool[i].mInUse
                /\ born.of[i] \in 1..Len(hist.sched)
                /\ g_scheduler.mPool[i].mTime = ToInt64(extract_timetag(Given(i)))
                /\ g_scheduler.mPool[i].mSize = Len(Given(i))
                /\ SubSeq(g_scheduler.mPool[i].mData, 1,
                          g_scheduler.mPool[i].mSize) = Given(i))
    /\ [][ born'.n # born.n
            => \E i \in Slots \ LiveSlots :
                  /\ ~g_scheduler.mPool[i].mInUse
                  /\ born'.of[i] = born'.n
                  /\ \A j \in Slots \ {i} :
                        /\ born'.of[j] = born.of[j]
                        /\ g_scheduler'.mPool[j] = g_scheduler.mPool[j]
          ]_vars
    /\ [][ last'.op = "perform"
            => /\ last'.data = hist.sched[last'.id]
               /\ last'.time = ToInt64(extract_timetag(hist.sched[last'.id]))
               /\ g_scheduler.mPool[last'.slot].mSize
                      = Len(hist.sched[last'.id])
               /\ ~g_scheduler'.mPool[last'.slot].mInUse
          ]_vars

\* the third bundle scheduled is dispatched from a slot that held an earlier
\* bundle with another payload
C38_Witness ==
    /\ last.op = "perform"
    /\ last.id = MAX_SCHEDULED_BUNDLES + 1
    /\ last.data = hist.sched[last.id]
    /\ \E n \in 1..MAX_SCHEDULED_BUNDLES : hist.sched[n] # last.data

\* the (UUID, id) pairs of the forward table
FwdPairs ==
    { <<uuid.fwd_hash[i].uuid_hi, uuid.fwd_hash[i].uuid_lo,
        uuid.fwd_hash[i].node_id>> :
      i \in { b \in UuidBuckets : uuid.fwd_hash[b].node_id # FWD_EMPTY } }

\* the (UUID, id) pairs of the reverse table
RevPairs ==
    { <<uuid.rev_hash[i].uuid_hi, uuid.rev_hash[i].uuid_lo,
        uuid.rev_hash[i].node_id>> :
      i \in { b \in UuidBuckets : uuid.rev_hash[b].node_id # REV_EMPTY } }

\* C39: the UUID map stays a bijection.  After any sequence of outbound
\* rewrites and inbound replies the two tables hold the same pairs, forward
\* lookup of a UUID yields id exactly when reverse lookup of id yields that
\* UUID, distinct live UUIDs have distinct ids, uuid_map_count is the number
\* of pairs, and rewriting a live UUID again yields its id and changes
\* nothing.
C39_UuidBijection ==
    /\ [](/\ FwdPairs = RevPairs
          /\ \A p, q \in FwdPairs :
                (p[3] = q[3]) <=> (p[1] = q[1] /\ p[2] = q[2])
          /\ uuid.uuid_map_count = Cardinality(FwdPairs)
          /\ Cardinality({ b \in UuidBuckets :
                             uuid.fwd_hash[b].node_id # FWD_EMPTY })
                 = uuid.uuid_map_count
          /\ Cardinality({ b \in UuidBuckets :
                             uuid.rev_hash[b].node_id # REV_EMPTY })
                 = uuid.uuid_map_count
          /\ \A u \in Uuids, id \in ReplyIds :
                LET hi == u[1]
                    lo == u[2]
                    f == fwd_find(uuid.fwd_hash, hi, lo)
                    r == rev_find(uuid.rev_hash, id)
                IN  /\ (f.ends /\ f.ret = id)
                           <=> (r.ends /\ r.found /\ r.hi = hi /\ r.lo = lo)
                    /\ (f.ends /\ f.ret = id) <=> (<<hi, lo, id>> \in FwdPairs))
    /\ [](\A u \in Uuids :
             LET hi == u[1]
                 lo == u[2]
                 f == fwd_find(uuid.fwd_hash, hi, lo)
                 r == uuid_insert(uuid, hi, lo)
             IN  /\ f.ret # -1 => r.ret = f.ret /\ r.U = uuid
                 /\ (f.ends /\ f.ret = -1)
                        => /\ r.ret = uuid.node_id_counter
                           /\ r.U.uuid_map_count = uuid.uuid_map_count + 1
                           /\ fwd_find(r.U.fwd_hash, hi, lo).ret = r.ret)

\* an /n_end reply has freed a pair and moved another pair back in the
\* forward table, and all buckets but one are still occupied
C39_Witness ==
    /\ last.op = "uuid_delete_by_id"
    /\ last.shifted
    /\ uuid.uuid_map_count = UUID_HASH_CAPACITY - 1
    /\ uuid.spin = "no"

\* C40: UUID rewriting never hangs the render thread.  Every probe loop of
\* uuid_insert and of the forward and reverse lookups ends, whatever the
\* tables hold.
C40_ProbesEnd == []<>(uuid.spin = "no")
====
